---- MODULE Spec2Model ----
(***************************************************************************)
(* Stylisti: the rule-based style engine (StyleAIEngine) and the MCP       *)
(* server around it.                                                       *)
(*                                                                         *)
(* JavaScript numbers are IEEE-754 doubles.  The engine's scores are built *)
(* from the literals 0.8, 0.2, 0.5, 0.9, 0.4 and compared with 0.6 and     *)
(* 0.8, none of which is a binary fraction, so the model carries doubles   *)
(* exactly: a double is sign, 53-bit significand and exponent, and every   *)
(* operation rounds to nearest, ties to even.  TLC integers are 32 bits    *)
(* wide, so significands are little-endian sequences of 15-bit limbs.      *)
(***************************************************************************)
EXTENDS Integers, Sequences, FiniteSets, Bags, TLC

(***************************************************************************)
(* Natural numbers of any size: little-endian limbs, no leading zero limb. *)
(***************************************************************************)
Base == 2^15

RECURSIVE Pow2(_)
Pow2(n) == IF n = 0 THEN 1 ELSE 2 * Pow2(n - 1)

RECURSIVE BNorm(_)
BNorm(a) ==
  IF a = <<>> THEN <<>>
  ELSE IF a[Len(a)] = 0 THEN BNorm(SubSeq(a, 1, Len(a) - 1))
  ELSE a

BFromInt(n) ==
  IF n = 0 THEN <<>>
  ELSE IF n < Base THEN <<n>>
  ELSE IF n < Base * Base THEN <<n % Base, n \div Base>>
  ELSE <<n % Base, (n \div Base) % Base, n \div (Base * Base)>>

Limb(a, i) == IF i <= Len(a) THEN a[i] ELSE 0

RECURSIVE BAddC(_, _, _)
BAddC(a, b, c) ==
  IF a = <<>> /\ b = <<>> THEN (IF c = 0 THEN <<>> ELSE <<c>>)
  ELSE LET s == Limb(a, 1) + Limb(b, 1) + c
       IN  <<s % Base>> \o BAddC(IF a = <<>> THEN <<>> ELSE Tail(a),
                                 IF b = <<>> THEN <<>> ELSE Tail(b),
                                 s \div Base)

BAdd(a, b) == BAddC(a, b, 0)

\* a - b for a >= b
RECURSIVE BSubB(_, _, _)
BSubB(a, b, c) ==
  IF a = <<>> THEN <<>>
  ELSE LET d == a[1] - Limb(b, 1) - c
       IN  <<IF d < 0 THEN d + Base ELSE d>>
             \o BSubB(Tail(a), IF b = <<>> THEN <<>> ELSE Tail(b),
                      IF d < 0 THEN 1 ELSE 0)

BSub(a, b) == BNorm(BSubB(a, b, 0))

\* -1, 0, 1 as a < b, a = b, a > b
RECURSIVE BCmpFrom(_, _, _)
BCmpFrom(a, b, i) ==
  IF i = 0 THEN 0
  ELSE IF a[i] < b[i] THEN -1
  ELSE IF a[i] > b[i] THEN 1
  ELSE BCmpFrom(a, b, i - 1)

BCmp(a, b) ==
  IF Len(a) < Len(b) THEN -1
  ELSE IF Len(a) > Len(b) THEN 1
  ELSE BCmpFrom(a, b, Len(a))

\* a * k for 0 <= k < Base
RECURSIVE BMulSmallC(_, _, _)
BMulSmallC(a, k, c) ==
  IF a = <<>> THEN (IF c = 0 THEN <<>> ELSE <<c>>)
  ELSE LET p == a[1] * k + c
       IN  <<p % Base>> \o BMulSmallC(Tail(a), k, p \div Base)

BMulSmall(a, k) == BNorm(BMulSmallC(a, k, 0))

RECURSIVE BMul(_, _)
BMul(a, b) ==
  IF b = <<>> \/ a = <<>> THEN <<>>
  ELSE LET rest == BMul(a, Tail(b))
       IN  BAdd(BMulSmall(a, b[1]), IF rest = <<>> THEN <<>> ELSE <<0>> \o rest)

\* <<quotient, remainder>> of a by d for 0 < d < Base, from the top limb down
RECURSIVE BDivModSmallFrom(_, _, _, _)
BDivModSmallFrom(a, d, i, r) ==
  IF i = 0 THEN <<<<>>, r>>
  ELSE LET cur  == r * Base + a[i]
           rest == BDivModSmallFrom(a, d, i - 1, cur % d)
       IN  <<rest[1] \o <<cur \div d>>, rest[2]>>

BDivModSmall(a, d) ==
  LET qr == BDivModSmallFrom(a, d, Len(a), 0)
  IN  <<BNorm(qr[1]), qr[2]>>

RECURSIVE SmallBitLen(_)
SmallBitLen(n) == IF n = 0 THEN 0 ELSE 1 + SmallBitLen(n \div 2)

LimbBits == SmallBitLen(Base - 1)

BitLen(a) == IF a = <<>> THEN 0 ELSE (Len(a) - 1) * LimbBits + SmallBitLen(a[Len(a)])

Zeros(q) == [i \in 1..q |-> 0]

\* a * 2^n
BShl(a, n) ==
  IF a = <<>> \/ n = 0 THEN a
  ELSE IF n % LimbBits = 0 THEN Zeros(n \div LimbBits) \o a
  ELSE Zeros(n \div LimbBits) \o BMulSmall(a, Pow2(n % LimbBits))

\* a \div 2^n
BShr(a, n) ==
  LET q == n \div LimbBits
  IN  IF q >= Len(a) THEN <<>>
      ELSE BDivModSmall(SubSeq(a, q + 1, Len(a)), Pow2(n % LimbBits))[1]

\* a % 2^n
BLow(a, n) == BSub(a, BShl(BShr(a, n), n))

BOdd(a) == a # <<>> /\ a[1] % 2 = 1

(***************************************************************************)
(* IEEE-754 doubles.  [neg, m, e] is (-1)^neg * m * 2^e with m = 0 or m of *)
(* exactly 53 bits.  No value of this program leaves the normal range      *)
(* (all lie between 2^-3 and 2^2), so subnormals, infinities and NaN are   *)
(* not represented.                                                        *)
(***************************************************************************)
FZero == [neg |-> FALSE, m |-> <<>>, e |-> 0]

\* Rounding to nearest, ties to even.  q holds the 53 bits kept; of the bits
\* that do not fit, guard is the top one and rest says that one of the others
\* is set.  Rounding up may carry into a 54th bit.
Normalized(neg, q, e) ==
  IF BitLen(q) > 53 THEN [neg |-> neg, m |-> BShr(q, 1), e |-> e + 1]
  ELSE [neg |-> neg, m |-> q, e |-> e]

RoundKept(neg, q, e, guard, rest) ==
  Normalized(neg, IF guard /\ (rest \/ BOdd(q)) THEN BAdd(q, <<1>>) ELSE q, e)

\* top holds the tbits highest of the bits that do not fit
RoundTop(neg, q, e, top, tbits, lower) ==
  RoundKept(neg, q, e, top >= Pow2(tbits - 1), top % Pow2(tbits - 1) # 0 \/ lower)

RoundSplit(neg, qr, e, tbits, lower) == RoundTop(neg, qr[1], e, qr[2], tbits, lower)

\* drop the low d = nl * LimbBits + nb bits of M
RoundOff(neg, M, e, sticky, nl, nb) ==
  IF nb = 0
  THEN RoundTop(neg, SubSeq(M, nl + 1, Len(M)), e + nl * LimbBits, M[nl], LimbBits,
                sticky \/ \E i \in 1..(nl - 1) : M[i] # 0)
  ELSE RoundSplit(neg, BDivModSmall(SubSeq(M, nl + 1, Len(M)), Pow2(nb)),
                  e + nl * LimbBits + nb, nb,
                  sticky \/ \E i \in 1..nl : M[i] # 0)

RoundBits(neg, M, e, sticky, L) ==
  IF L <= 53 THEN [neg |-> neg, m |-> BShl(M, 53 - L), e |-> e - (53 - L)]
  ELSE RoundOff(neg, M, e, sticky, (L - 53) \div LimbBits, (L - 53) % LimbBits)

\* the double nearest to (-1)^neg * (M + f) * 2^e, where 0 < f < 1 if sticky
\* and f = 0 otherwise
FRound(neg, M, e, sticky) ==
  IF M = <<>> THEN FZero ELSE RoundBits(neg, M, e, sticky, BitLen(M))

\* Number(n) for an integer n
FromInt(n) == FRound(n < 0, BFromInt(IF n < 0 THEN -n ELSE n), 0, FALSE)

RoundQuotient(neg, qr, e) == FRound(neg, qr[1], e, qr[2] # 0)

\* x / n for a double x and a positive integer-valued double n < 2^15
FDivInt(x, n) ==
  IF x.m = <<>> THEN FZero
  ELSE RoundQuotient(x.neg, BDivModSmall(BShl(x.m, 2 * LimbBits), n), x.e - 2 * LimbBits)

\* the decimal literal n/d (d a power of ten): JavaScript reads a literal as
\* the double nearest to its decimal value
Lit(n, d) == FDivInt(FromInt(n), d)

FMul(x, y) == FRound(x.neg # y.neg, BMul(x.m, y.m), x.e + y.e, FALSE)

FNeg(x) == IF x.m = <<>> THEN x ELSE [x EXCEPT !.neg = ~x.neg]

MinExp(x, y) ==
  IF x.m = <<>> THEN y.e ELSE IF y.m = <<>> THEN x.e ELSE IF x.e < y.e THEN x.e ELSE y.e

\* the significand of x over the exponent e <= x.e
Scaled(x, e) == IF x.m = <<>> THEN <<>> ELSE BShl(x.m, x.e - e)

\* a and b are the significands of x and y over the common exponent e
AddScaled(x, y, a, b, e) ==
  IF x.neg = y.neg THEN FRound(x.neg, BAdd(a, b), e, FALSE)
  ELSE IF BCmp(a, b) = 0 THEN FZero
  ELSE IF BCmp(a, b) > 0 THEN FRound(x.neg, BSub(a, b), e, FALSE)
  ELSE FRound(y.neg, BSub(b, a), e, FALSE)

AddAt(x, y, e) == AddScaled(x, y, Scaled(x, e), Scaled(y, e), e)

FAdd(x, y) == AddAt(x, y, MinExp(x, y))

FSub(x, y) == FAdd(x, FNeg(y))

CmpAt(x, y, e) ==
  IF x.m = <<>> /\ y.m = <<>> THEN 0
  ELSE IF x.neg /\ ~y.neg THEN -1
  ELSE IF ~x.neg /\ y.neg THEN 1
  ELSE IF x.neg THEN BCmp(Scaled(y, e), Scaled(x, e))
  ELSE BCmp(Scaled(x, e), Scaled(y, e))

\* -1, 0, 1 as x < y, x = y, x > y
FCmp(x, y) == CmpAt(x, y, MinExp(x, y))

FLt(x, y) == FCmp(x, y) < 0

FLe(x, y) == FCmp(x, y) <= 0

FGe(x, y) == FCmp(x, y) >= 0

FGt(x, y) == FCmp(x, y) > 0

\* Math.max and Math.min of two doubles
MathMax(x, y) == IF FLt(x, y) THEN y ELSE x

MathMin(x, y) == IF FLt(y, x) THEN y ELSE x

\* the numeric literals of the engine, each the double nearest to it
Num0 == FromInt(0)

Num1 == FromInt(1)

Num0_2 == Lit(2, 10)

Num0_4 == Lit(4, 10)

Num0_5 == Lit(5, 10)

Num0_6 == Lit(6, 10)

Num0_8 == Lit(8, 10)

Num0_9 == Lit(9, 10)

(***************************************************************************)
(* Strings the code inspects character by character (the colour names) are *)
(* sequences of one-character strings; strings it only compares whole      *)
(* (style and occasion tags, messages) are TLA+ strings.                   *)
(***************************************************************************)
UpperLetters == <<"A","B","C","D","E","F","G","H","I","J","K","L","M",
                  "N","O","P","Q","R","S","T","U","V","W","X","Y","Z">>

LowerLetters == <<"a","b","c","d","e","f","g","h","i","j","k","l","m",
                  "n","o","p","q","r","s","t","u","v","w","x","y","z">>

\* String.prototype.toLowerCase
toLowerCase(str) ==
  [i \in 1..Len(str) |->
     IF \E k \in 1..26 : UpperLetters[k] = str[i]
     THEN LowerLetters[CHOOSE k \in 1..26 : UpperLetters[k] = str[i]]
     ELSE str[i]]

\* String.prototype.includes
includes(str, sub) ==
  \E i \in 0..(Len(str) - Len(sub)) : SubSeq(str, i + 1, i + Len(sub)) = sub

black == <<"b","l","a","c","k">>

white == <<"w","h","i","t","e">>

gray == <<"g","r","a","y">>

navy == <<"n","a","v","y">>

beige == <<"b","e","i","g","e">>

brown == <<"b","r","o","w","n">>

red == <<"r","e","d">>

NavyBlue == <<"N","a","v","y"," ","b","l","u","e">>

BLACK == <<"B","L","A","C","K">>

\* a JavaScript object is a record, and a property that was never set is
\* not in its domain: reading it yields undefined
has(obj, prop) == prop \in DOMAIN obj

\* an object with no property
EmptyObject == [prop \in {} |-> {}]

(***************************************************************************)
(* StyleAIEngine: analyzeOutfit and its helpers.                           *)
(* tags.style and tags.occasion are arrays of which the code reads only    *)
(* emptiness and membership, so they are sets here; tags.colors and        *)
(* tags.garments are sequences.                                            *)
(***************************************************************************)
styleConflicts == <<<<"formal", "casual">>, <<"minimalist", "bohemian">>, <<"edgy", "romantic">>>>

\* a variant that reports whether any pair conflicts, not how many
checkStyleConflictsAny(styles) ==
  IF \E i \in 1..Len(styleConflicts) :
       styleConflicts[i][1] \in styles /\ styleConflicts[i][2] \in styles
  THEN 1 ELSE 0

checkStyleConflicts(styles) ==
  Cardinality({i \in 1..Len(styleConflicts) :
                 styleConflicts[i][1] \in styles /\ styleConflicts[i][2] \in styles})

calculateStyleCoherence(outfit) ==
  LET styles == outfit.tags.style
  IN  IF styles = {} THEN Num0_5
      ELSE LET conflicts == checkStyleConflicts(styles)
               baseScore == Num0_8
               penalty   == FMul(FromInt(conflicts), Num0_2)
           IN  MathMax(Num0, MathMin(Num1, FSub(baseScore, penalty)))

neutrals == <<black, white, gray, navy, beige, brown>>

\* a variant that matches the neutral names without lower-casing the colour
calculateColorHarmonyCaseSensitive(colors) ==
  IF Len(colors) = 0 THEN Num0_5
  ELSE IF Len(colors) = 1 THEN Num0_9
  ELSE LET neutralCount ==
             Cardinality({i \in 1..Len(colors) :
                            \E k \in 1..Len(neutrals) : includes(colors[i], neutrals[k])})
           neutralRatio == FDivInt(FromInt(neutralCount), Len(colors))
       IN  FAdd(Num0_5, FMul(neutralRatio, Num0_4))

calculateColorHarmony(colors) ==
  IF Len(colors) = 0 THEN Num0_5
  ELSE IF Len(colors) = 1 THEN Num0_9
  ELSE LET neutralCount ==
             Cardinality({i \in 1..Len(colors) :
                            \E k \in 1..Len(neutrals) : includes(toLowerCase(colors[i]), neutrals[k])})
           neutralRatio == FDivInt(FromInt(neutralCount), Len(colors))
       IN  FAdd(Num0_5, FMul(neutralRatio, Num0_4))

\* a variant that scores by the occasion named
calculateOccasionFitByName(outfit) ==
  LET occasions == outfit.tags.occasion
  IN  IF occasions = {} THEN Num0_5
      ELSE IF "work" \in occasions THEN Num0_8
      ELSE Num0_6

calculateOccasionFit(outfit) ==
  LET occasions == outfit.tags.occasion
  IN  IF occasions = {} THEN Num0_5
      ELSE Num0_8

SummaryExcellent == "Excellent outfit choice! Great style coherence and perfect for the occasion."

SummaryGood == "Good outfit with room for minor improvements."

SummaryAdjust == "Consider adjusting some elements for better overall harmony."

\* a variant whose thresholds are strict
SummaryForStrict(overall) ==
  IF FGt(overall, Num0_8) THEN SummaryExcellent
  ELSE IF FGt(overall, Num0_6) THEN SummaryGood
  ELSE SummaryAdjust

SummaryFor(overall) ==
  IF FGe(overall, Num0_8) THEN SummaryExcellent
  ELSE IF FGe(overall, Num0_6) THEN SummaryGood
  ELSE SummaryAdjust

generateAnalysisSummary(style, color, occasion) ==
  SummaryFor(FDivInt(FAdd(FAdd(style, color), occasion), 3))

ImproveStyle == "Consider choosing accessories that better match your overall style"

ImproveColors == "Try limiting to 2-3 main colors for better harmony"

ImproveSimplify == "Simplify the outfit by removing one accessory"

\* a variant that asks to simplify from six garments on
generateImprovementsFromSix(outfit, style, color) ==
  (IF FLt(style, Num0_6) THEN <<ImproveStyle>> ELSE <<>>)
    \o (IF FLt(color, Num0_6) THEN <<ImproveColors>> ELSE <<>>)
    \o (IF Len(outfit.tags.garments) >= 6 THEN <<ImproveSimplify>> ELSE <<>>)

generateImprovements(outfit, style, color) ==
  (IF FLt(style, Num0_6) THEN <<ImproveStyle>> ELSE <<>>)
    \o (IF FLt(color, Num0_6) THEN <<ImproveColors>> ELSE <<>>)
    \o (IF Len(outfit.tags.garments) > 6 THEN <<ImproveSimplify>> ELSE <<>>)

FactorClassic == "Classic style choices tend to boost confidence"

FactorDark == "Dark colors create a polished, confident appearance"

FactorWork == "Professional appropriate outfit builds workplace confidence"

identifyConfidenceFactors(outfit) ==
  (IF "classic" \in outfit.tags.style THEN <<FactorClassic>> ELSE <<>>)
    \o (IF \E i \in 1..Len(outfit.tags.colors) : outfit.tags.colors[i] \in {navy, black}
        THEN <<FactorDark>> ELSE <<>>)
    \o (IF "work" \in outfit.tags.occasion THEN <<FactorWork>> ELSE <<>>)

\* how a promise settled
Fulfilled(v) == [status |-> "fulfilled", value |-> v]

Rejected(r) == [status |-> "rejected", reason |-> r]

AIAnalysis(outfit, styleCoherence, colorHarmony, occasionAppropriateness) ==
  [styleCoherence          |-> styleCoherence,
   colorHarmony            |-> colorHarmony,
   occasionAppropriateness |-> occasionAppropriateness,
   summary                 |-> generateAnalysisSummary(styleCoherence, colorHarmony, occasionAppropriateness),
   suggestedImprovements   |-> generateImprovements(outfit, styleCoherence, colorHarmony),
   confidenceFactors       |-> identifyConfidenceFactors(outfit)]

\* a variant with hidden state: the first outfit created scores differently
analyzeOutfitById(outfit) ==
  IF \E prop \in {"style", "colors", "occasion", "garments"} : ~has(outfit.tags, prop)
  THEN Rejected("TypeError")
  ELSE Fulfilled(AIAnalysis(outfit,
                            IF has(outfit, "id") /\ outfit.id = 1
                            THEN Num1 ELSE calculateStyleCoherence(outfit),
                            calculateColorHarmony(outfit.tags.colors),
                            calculateOccasionFit(outfit)))

\* The helpers read .length, .includes or .some of tags.style, tags.colors,
\* tags.occasion and tags.garments without a guard; on an absent array that
\* read raises a TypeError, which rejects the promise analyzeOutfit returns.
analyzeOutfit(outfit) ==
  IF \E prop \in {"style", "colors", "occasion", "garments"} : ~has(outfit.tags, prop)
  THEN Rejected("TypeError")
  ELSE Fulfilled(AIAnalysis(outfit,
                            calculateStyleCoherence(outfit),
                            calculateColorHarmony(outfit.tags.colors),
                            calculateOccasionFit(outfit)))

(***************************************************************************)
(* StyleAIEngine.generateRecommendations.  Math.random() and Date.now() are *)
(* inputs: a call reads one clock value and a stream of random draws, one   *)
(* draw for each candidate's score and one for each other use.              *)
(***************************************************************************)
approaches == <<"high_confidence_historical", "weather_optimized", "occasion_perfect",
                "comfort_focused", "style_exploration">>

reasoningMap ==
  [high_confidence_historical |-> <<"Based on your highest-rated outfits",
                                    "Proven confidence booster",
                                    "Similar weather conditions performed well">>,
   weather_optimized          |-> <<"Perfect for current weather conditions",
                                    "Breathable fabrics for comfort",
                                    "Appropriate layering options">>,
   occasion_perfect           |-> <<"Ideal for the planned occasion",
                                    "Meets dress code requirements",
                                    "Professional yet approachable">>,
   comfort_focused            |-> <<"Maximum comfort for all-day wear",
                                    "Soft, stretchy fabrics",
                                    "Easy movement and flexibility">>,
   style_exploration          |-> <<"Try something new within your style range",
                                    "Subtle variation on your usual look",
                                    "Low-risk style experiment">>]

\* a variant whose map has no entry for the last strategy
generateRecommendationReasoningPartial(approach, ctx) ==
  IF has(reasoningMap, approach) /\ approach # approaches[Len(approaches)]
  THEN reasoningMap[approach]
  ELSE <<"General recommendation based on your preferences">>

generateRecommendationReasoning(approach, ctx) ==
  IF has(reasoningMap, approach) THEN reasoningMap[approach]
  ELSE <<"General recommendation based on your preferences">>

Num0_3 == Lit(3, 10)

Num0_7 == Lit(7, 10)

\* Math.random() * 0.3 + 0.7
ScoreFrom(random) == FAdd(FMul(random, Num0_3), Num0_7)

\* scoreDraw is the Math.random() of baseScore, suffixDraw the one of the id,
\* and subScore the value Math.random() * 0.3 + 0.7 takes at the sub-scores
generateSingleRecommendation(ctx, approach, now, scoreDraw, suffixDraw, subScore) ==
  [id              |-> <<"rec", now, suffixDraw>>,
   score           |-> ScoreFrom(scoreDraw),
   reasoning       |-> generateRecommendationReasoning(approach, ctx),
   weatherScore    |-> subScore,
   occasionScore   |-> subScore,
   personalScore   |-> subScore,
   confidenceScore |-> subScore]

\* a variant that orders by rising score
compareByScoreAscending(a, b) == FSub(a.score, b.score)

\* the comparator (a, b) => b.score - a.score
compareByScore(a, b) == FSub(b.score, a.score)

IsPositive(x) == x.m # <<>> /\ ~x.neg

\* Array.prototype.sort is stable: x goes before the first element that the
\* comparator orders after it
RECURSIVE insertSorted(_, _)
insertSorted(sorted, x) ==
  IF sorted = <<>> THEN <<x>>
  ELSE IF IsPositive(compareByScore(Head(sorted), x)) THEN <<x>> \o sorted
  ELSE <<Head(sorted)>> \o insertSorted(Tail(sorted), x)

RECURSIVE sort(_)
sort(array) ==
  IF array = <<>> THEN <<>>
  ELSE insertSorted(sort(SubSeq(array, 1, Len(array) - 1)), array[Len(array)])

candidates(ctx, now, scoreDraws, suffixDraw, subScore) ==
  [i \in 1..Len(approaches) |->
     generateSingleRecommendation(ctx, approaches[i], now, scoreDraws[i], suffixDraw, subScore)]

\* scoreDraws[i] is the draw of candidate i's score; every other draw of the
\* call is otherDraw
generateRecommendations(ctx, now, scoreDraws, otherDraw) ==
  sort(candidates(ctx, now, scoreDraws, otherDraw, ScoreFrom(otherDraw)))

(***************************************************************************)
(* OutfitDatabase: the outfits table is a sequence of rows in insertion    *)
(* order.  A column holding NULL is a field the row does not have, and a   *)
(* JSON column holds the value that JSON.parse gives back.                 *)
(***************************************************************************)
\* data[prop] || fallback, for an array or a string property
orElse(data, prop, fallback) == IF has(data, prop) THEN data[prop] ELSE fallback

\* the Outfit object createOutfit builds; uuidv4() and getCurrentSeason() are inputs
createOutfit(data, id, currentSeason) ==
  [id   |-> id,
   tags |-> [occasion |-> orElse(data, "occasion", {}),
             season   |-> IF has(data, "season") THEN {data.season} ELSE {currentSeason},
             style    |-> orElse(data, "style_tags", {}),
             mood     |-> orElse(data, "mood", ""),
             colors   |-> orElse(data, "colors", <<>>),
             garments |-> orElse(data, "garments", <<>>)]]

\* the row createOutfit's INSERT writes
insertOutfit(created) ==
  [id            |-> created.id,
   occasion_tags |-> created.tags.occasion,
   style_tags    |-> created.tags.style,
   mood          |-> created.tags.mood,
   season        |-> created.tags.season,
   colors        |-> created.tags.colors,
   garments      |-> created.tags.garments]

ratingColumns == {"confidence_rating", "comfort_rating", "success_rating", "repeat_likelihood"}

\* the columns one UPDATE of updateOutfitRatings sets: an undefined parameter binds NULL
ratingValues(ratings) ==
  (IF has(ratings, "confidence") THEN [confidence_rating |-> ratings.confidence] ELSE EmptyObject)
    @@ (IF has(ratings, "comfort") THEN [comfort_rating |-> ratings.comfort] ELSE EmptyObject)
    @@ (IF has(ratings, "success") THEN [success_rating |-> ratings.success] ELSE EmptyObject)
    @@ (IF has(ratings, "repeatLikelihood")
        THEN [repeat_likelihood |-> ratings.repeatLikelihood] ELSE EmptyObject)

withoutColumns(row, columns) == [c \in DOMAIN row \ columns |-> row[c]]

\* a variant that writes the row anew, keeping only what createOutfit stored
updateOutfitRatingsReplacing(table, id, ratings) ==
  [i \in DOMAIN table |->
     IF table[i].id = id
     THEN ratingValues(ratings) @@ withoutColumns(table[i], ratingColumns \cup {"ai_analysis"})
     ELSE table[i]]

updateOutfitRatings(table, id, ratings) ==
  [i \in DOMAIN table |->
     IF table[i].id = id
     THEN ratingValues(ratings) @@ withoutColumns(table[i], ratingColumns)
     ELSE table[i]]

updateOutfitAnalysis(table, id, aiAnalysis) ==
  [i \in DOMAIN table |->
     IF table[i].id = id
     THEN [ai_analysis |-> aiAnalysis] @@ withoutColumns(table[i], {"ai_analysis"})
     ELSE table[i]]

\* a number read from a column that may hold NULL: null compares as 0
ToNumber(obj, prop) == IF has(obj, prop) THEN obj[prop] ELSE 0

rowToOutfit(row) ==
  [id   |-> row.id,
   tags |-> [occasion |-> row.occasion_tags,
             season   |-> row.season,
             style    |-> row.style_tags,
             mood     |-> row.mood,
             colors   |-> row.colors,
             garments |-> row.garments]]
    @@ (IF ToNumber(row, "confidence_rating") # 0
        THEN [ratings |-> [confidence |-> row.confidence_rating]
                            @@ (IF has(row, "comfort_rating")
                                THEN [comfort |-> row.comfort_rating] ELSE EmptyObject)
                            @@ (IF has(row, "success_rating")
                                THEN [success |-> row.success_rating] ELSE EmptyObject)
                            @@ (IF has(row, "repeat_likelihood")
                                THEN [repeatLikelihood |-> row.repeat_likelihood]
                                ELSE EmptyObject)]
        ELSE EmptyObject)
    @@ (IF has(row, "ai_analysis") THEN [aiAnalysis |-> row.ai_analysis] ELSE EmptyObject)

\* a variant that falls back on the first row when no row has the id
getOutfitOrFirst(table, id) ==
  IF \E j \in DOMAIN table : table[j].id = id
  THEN {rowToOutfit(table[i]) : i \in {j \in DOMAIN table : table[j].id = id}}
  ELSE {rowToOutfit(table[i]) : i \in DOMAIN table \cap {1}}

\* getOutfit: the outfits read from the rows with this id, none or one
getOutfit(table, id) == {rowToOutfit(table[i]) : i \in {j \in DOMAIN table : table[j].id = id}}

(***************************************************************************)
(* StyleAIEngine.generateRatingInsights                                    *)
(***************************************************************************)
InsightNoRatings == "No ratings provided yet."

InsightHighConfidence == "High confidence outfit - great style choice!"

InsightLowConfidence == "Consider what made you feel less confident about this outfit."

InsightVeryComfortable == "Very comfortable - perfect for active days."

InsightLowComfort == "Low comfort - consider fabric and fit adjustments."

InsightSuccessful == "Highly successful outfit - save this combination!"

InsightTradeOff == "Style over comfort trade-off - consider more comfortable alternatives."

\* a variant whose high notes start above 8
ratingInsightsAboveEight(confidence, comfort, success) ==
  (IF confidence > 8 THEN <<InsightHighConfidence>>
   ELSE IF confidence <= 4 THEN <<InsightLowConfidence>> ELSE <<>>)
    \o (IF comfort > 8 THEN <<InsightVeryComfortable>>
        ELSE IF comfort <= 4 THEN <<InsightLowComfort>> ELSE <<>>)
    \o (IF success > 8 THEN <<InsightSuccessful>> ELSE <<>>)
    \o (IF confidence > comfort THEN <<InsightTradeOff>> ELSE <<>>)

ratingInsights(confidence, comfort, success) ==
  (IF confidence >= 8 THEN <<InsightHighConfidence>>
   ELSE IF confidence <= 4 THEN <<InsightLowConfidence>> ELSE <<>>)
    \o (IF comfort >= 8 THEN <<InsightVeryComfortable>>
        ELSE IF comfort <= 4 THEN <<InsightLowComfort>> ELSE <<>>)
    \o (IF success >= 8 THEN <<InsightSuccessful>> ELSE <<>>)
    \o (IF confidence > comfort THEN <<InsightTradeOff>> ELSE <<>>)

\* a variant without the check for absent ratings
generateRatingInsightsUnguarded(rated) ==
  IF ~has(rated, "ratings") THEN ratingInsights(0, 0, 0)
  ELSE ratingInsights(ToNumber(rated.ratings, "confidence"),
                      ToNumber(rated.ratings, "comfort"),
                      ToNumber(rated.ratings, "success"))

generateRatingInsights(rated) ==
  IF ~has(rated, "ratings") THEN <<InsightNoRatings>>
  ELSE ratingInsights(ToNumber(rated.ratings, "confidence"),
                      ToNumber(rated.ratings, "comfort"),
                      ToNumber(rated.ratings, "success"))

(***************************************************************************)
(* StyleMCPServer: what a tool call returns.                               *)
(***************************************************************************)
ToolResult(name, content) == [tool |-> name, isError |-> FALSE, content |-> content]

ToolError(name, message) == [tool |-> name, isError |-> TRUE, content |-> message]

\* recommendations.slice(0, 5), each shown by its first reasoning line
formattedRecs(recs) ==
  [i \in 1..(IF Len(recs) < 5 THEN Len(recs) ELSE 5) |-> recs[i].reasoning[1]]

(***************************************************************************)
(* The wardrobe table, the engine's reports, and the tools the server      *)
(* lists and dispatches.                                                   *)
(***************************************************************************)
\* a variant that enters the item as already worn off
addWardrobeItemWornOff(data, id) ==
  [id        |-> id,
   name      |-> data.item_name,
   category  |-> data.category,
   colors    |-> orElse(data, "colors", <<>>),
   styleTags |-> orElse(data, "style_tags", {}),
   wornCount |-> -1]

\* the WardrobeItem addWardrobeItem builds; uuidv4() is an input
addWardrobeItem(data, id) ==
  [id        |-> id,
   name      |-> data.item_name,
   category  |-> data.category,
   colors    |-> orElse(data, "colors", <<>>),
   styleTags |-> orElse(data, "style_tags", {}),
   wornCount |-> 0]

\* the row addWardrobeItem's INSERT writes
insertWardrobeItem(item) ==
  [id         |-> item.id,
   name       |-> item.name,
   category   |-> item.category,
   colors     |-> item.colors,
   style_tags |-> item.styleTags,
   worn_count |-> item.wornCount]

rowToWardrobeItem(row) ==
  [id        |-> row.id,
   name      |-> row.name,
   category  |-> row.category,
   colors    |-> row.colors,
   styleTags |-> row.style_tags,
   wornCount |-> row.worn_count]

getWardrobeInventory(items) == [i \in DOMAIN items |-> rowToWardrobeItem(items[i])]

getWardrobeCount(items) == Len(items)

Num0_75 == Lit(75, 100)

analyzeStylePatterns(criteria) ==
  [patternType |-> orElse(criteria, "analysis_type", "confidence_trends"),
   timeFrame   |-> orElse(criteria, "time_period", "month"),
   insights    |-> <<[category |-> "Color Preferences", trend |-> "increasing",
                      value |-> Num0_75,
                      description |-> "Growing preference for neutral tones",
                      significance |-> "medium"],
                     [category |-> "Formality Level", trend |-> "stable",
                      value |-> Num0_6,
                      description |-> "Consistent smart-casual style preference",
                      significance |-> "high"]>>,
   recommendations |-> <<"Try incorporating one bold color per outfit",
                         "Experiment with textured neutrals for visual interest",
                         "Consider investing in quality basics">>]

analyzeWardrobeGaps(criteria) ==
  <<[category |-> "Professional Outerwear", priority |-> "high",
     description |-> "Missing blazer for professional occasions",
     suggestedItems |-> <<"Navy blazer", "Neutral cardigan">>,
     occasionsCovered |-> <<"work", "business casual", "presentations">>,
     estimatedBudget |-> "$100-300"],
    [category |-> "Versatile Footwear", priority |-> "medium",
     description |-> "Limited shoe options for different occasions",
     suggestedItems |-> <<"Leather loafers", "Ankle boots">>,
     occasionsCovered |-> <<"casual", "smart-casual", "date night">>,
     estimatedBudget |-> "$80-200"]>>

\* generateMonthlyReport; new Date() is an input, as its year and month
generateMonthlyReport(now) ==
  [id        |-> <<"report", now.year, now.month + 1>>,
   dateRange |-> [start |-> [year |-> now.year, month |-> now.month, date |-> 1],
                  end   |-> now],
   metrics   |-> [totalOutfits |-> 15,
                  mostWornItems |-> <<>>,
                  topStyles |-> <<"casual", "smart-casual", "minimalist">>],
   insights  |-> <<[category |-> "Confidence Growth", trend |-> "increasing",
                    description |-> "Confidence increased by 15% this month",
                    significance |-> "high"]>>,
   recommendations |-> <<"Continue building on your minimalist style foundation",
                         "Experiment with textures to add visual interest",
                         "Consider adding one statement piece to your wardrobe">>,
   generatedAt |-> now]

\* the names of the tools setupOutfitTools, setupAnalysisTools and
\* setupWardrobeTools return
outfitTools ==
  <<"log_outfit", "rate_outfit", "get_outfit_recommendations", "search_outfits",
    "get_outfit_details", "delete_outfit">>

analysisTools ==
  <<"analyze_style_patterns", "get_style_insights", "generate_style_report",
    "analyze_color_palette", "track_confidence_trends", "identify_go_to_outfits",
    "analyze_outfit_performance", "predict_outfit_success", "compare_outfit_periods">>

wardrobeTools ==
  <<"add_wardrobe_item", "update_wardrobe_item", "remove_wardrobe_item",
    "get_wardrobe_inventory", "wardrobe_gap_analysis", "analyze_wardrobe_usage",
    "calculate_cost_per_wear", "suggest_outfit_combinations", "plan_wardrobe_refresh",
    "export_wardrobe_data">>

\* the tools of the ListTools response
listedTools == outfitTools \o analysisTools \o wardrobeTools

\* the case labels of the switch in the CallTool handler
dispatchedTools ==
  {"log_outfit", "rate_outfit", "get_outfit_recommendations", "search_outfits",
   "analyze_style_patterns", "add_wardrobe_item", "wardrobe_gap_analysis"}

(***************************************************************************)
(* searchOutfits.  A text is the sequence of its characters; the columns   *)
(* that createOutfit writes with JSON.stringify are compared as texts.     *)
(***************************************************************************)
work == <<"w","o","r","k">>

party == <<"p","a","r","t","y">>

casual == <<"c","a","s","u","a","l">>

summer == <<"s","u","m","m","e","r">>

fall == <<"f","a","l","l">>

\* the elements of an array in some order; the model keeps the arrays of
\* tags as sets
elementsOf(array) ==
  CHOOSE q \in [1..Cardinality(array) -> array] : {q[i] : i \in DOMAIN q} = array

RECURSIVE joinQuoted(_)
joinQuoted(elements) ==
  IF elements = <<>>
  THEN <<>>
  ELSE <<"\"">> \o Head(elements) \o <<"\"">>
         \o (IF Len(elements) > 1 THEN <<",">> ELSE <<>>)
         \o joinQuoted(Tail(elements))

\* JSON.stringify of an array of strings
JSONstringify(array) == <<"[">> \o joinQuoted(elementsOf(array)) \o <<"]">>

\* column LIKE '%pattern%'; LIKE ignores the case of letters
LIKE(text, pattern) == includes(toLowerCase(text), toLowerCase(pattern))

\* the conjuncts searchOutfits adds to WHERE 1=1 for these criteria
searchWhere(row, criteria) ==
  /\ (has(criteria, "tags") /\ Len(criteria.tags) > 0)
       => \/ LIKE(JSONstringify(row.occasion_tags), criteria.tags[1])
          \/ LIKE(JSONstringify(row.style_tags), criteria.tags[1])
  /\ ToNumber(criteria, "min_confidence") # 0
       => has(row, "confidence_rating") /\ row.confidence_rating >= criteria.min_confidence
  /\ ToNumber(criteria, "min_comfort") # 0
       => has(row, "comfort_rating") /\ row.comfort_rating >= criteria.min_comfort
  /\ has(criteria, "occasion")
       => LIKE(JSONstringify(row.occasion_tags), criteria.occasion)
  /\ has(criteria, "season")
       => JSONstringify(row.season) = criteria.season

\* ORDER BY timestamp DESC, of rows with different timestamps
RECURSIVE orderByTimestampDesc(_)
orderByTimestampDesc(rows) ==
  IF rows = {}
  THEN <<>>
  ELSE LET latest == CHOOSE r \in rows : \A other \in rows : other.timestamp <= r.timestamp
       IN  <<latest>> \o orderByTimestampDesc(rows \ {latest})

searchOutfits(table, criteria) ==
  LET matching == {table[i] : i \in {j \in DOMAIN table : searchWhere(table[j], criteria)}}
      ordered  == orderByTimestampDesc(matching)
      limited  == IF ToNumber(criteria, "limit") # 0 /\ criteria.limit < Len(ordered)
                  THEN SubSeq(ordered, 1, criteria.limit)
                  ELSE ordered
  IN  [i \in DOMAIN limited |-> rowToOutfit(limited[i])]

(***************************************************************************)
(* The web interface: express.static, then the routes in the order the     *)
(* server registers them.  A request is its method, its path, whether its  *)
(* cookie header includes 'stylisti-auth=verified', and its body.          *)
(***************************************************************************)
Response(status, body) == [status |-> status, body |-> body, setCookie |-> FALSE]

redirect(location) == [status |-> 302, body |-> location, setCookie |-> FALSE]

NotFound == Response(404, "Not Found")

\* res.sendFile of a file of __dirname; dir is the set of files in it
sendFile(dir, name) == IF name \in dir THEN Response(200, name) ELSE NotFound

\* the file express.static(__dirname) serves for a request, if any: the
\* file the path names, index.html for the directory
staticFile(dir, req) ==
  IF req.method # "GET"
  THEN {}
  ELSE {name \in dir : req.path = "/" \o name \/ (req.path = "/" /\ name = "index.html")}

correctPassword(environment) ==
  IF has(environment, "STYLISTI_PASSWORD") /\ environment.STYLISTI_PASSWORD # ""
  THEN environment.STYLISTI_PASSWORD
  ELSE "default_password"

\* the handlers of the routes, by the line of their registration
verifyPassword(req, environment) ==
  IF ~has(req.body, "password") \/ req.body.password # correctPassword(environment)
  THEN redirect("/login?error=password")
  ELSE [redirect("/") EXCEPT !.setCookie = TRUE]

verifyLogin(req, environment) ==
  IF has(req.body, "password") /\ req.body.password = correctPassword(environment)
  THEN [Response(200, "success") EXCEPT !.setCookie = TRUE]
  ELSE Response(401, "Incorrect password")

routes ==
  <<[method |-> "GET",  path |-> "/login",           requireAuth |-> FALSE, handler |-> "login page"],
    [method |-> "POST", path |-> "/verify-password", requireAuth |-> FALSE, handler |-> "verify-password"],
    [method |-> "POST", path |-> "/verify-login",    requireAuth |-> FALSE, handler |-> "verify-login"],
    [method |-> "GET",  path |-> "/mobile",          requireAuth |-> FALSE, handler |-> "mobile.html"],
    [method |-> "GET",  path |-> "/app",             requireAuth |-> FALSE, handler |-> "app.html"],
    [method |-> "GET",  path |-> "/",                requireAuth |-> FALSE, handler |-> "app.html"],
    [method |-> "GET",  path |-> "/",                requireAuth |-> FALSE, handler |-> "index.html"],
    [method |-> "GET",  path |-> "/",                requireAuth |-> TRUE,  handler |-> "app.html"]>>

\* requireAuth: TRUE when it calls next()
requireAuth(req) ==
  LET authCookie == req.cookie
      isAuthPage == req.path = "/login" \/ req.path = "/verify-password"
  IN  ~(~authCookie /\ ~isAuthPage)

runHandler(route, dir, req, environment) ==
  IF route.requireAuth /\ ~requireAuth(req)
  THEN redirect("/login")
  ELSE CASE route.handler = "login page"      -> Response(200, "login page")
         [] route.handler = "verify-password" -> verifyPassword(req, environment)
         [] route.handler = "verify-login"    -> verifyLogin(req, environment)
         [] OTHER                             -> sendFile(dir, route.handler)

\* the response of the app to a request: the static file if there is one,
\* else the first route registered for the method and the path
handle(table, dir, req, environment) ==
  LET matching == {i \in DOMAIN table :
                     table[i].method = req.method /\ table[i].path = req.path}
  IN  IF staticFile(dir, req) # {}
      THEN Response(200, CHOOSE name \in staticFile(dir, req) : TRUE)
      ELSE IF matching = {}
           THEN NotFound
           ELSE runHandler(table[CHOOSE i \in matching : \A j \in matching : i <= j],
                           dir, req, environment)

(***************************************************************************)
(* The engine called on its own: the outfit is the argument of one call of *)
(* analyzeOutfit, and analysis is how the returned promise settled.        *)
(***************************************************************************)
VARIABLES outfitArg, analysis

engineVars == <<outfitArg, analysis>>

\* the argument of one call of generateRecommendations and how it settled
VARIABLES context, recommendations

recVars == <<context, recommendations>>

\* the server: the outfits table, the tool calls in flight, the last tool
\* result returned, and the calls of analyzeOutfit made so far, each with the
\* outfit passed, the result, and the table and the last tool result then
VARIABLES outfits, calls, reply, analyses

serverVars == <<outfits, calls, reply, analyses>>

\* the argument of one call of generateRatingInsights and how it settled
VARIABLES ratedOutfit, insights

insightVars == <<ratedOutfit, insights>>

\* the wardrobe_items table
VARIABLES wardrobe

toolVars == <<wardrobe>>

\* the table and the criteria of one call of searchOutfits and how it settled
VARIABLES searchTable, searchCriteria, searchResults

searchVars == <<searchTable, searchCriteria, searchResults>>

\* the web interface: the files next to server.js, process.env, whether the
\* browser holds the cookie stylisti-auth=verified, and the last request with
\* its response
VARIABLES files, env, jar, exchange

webVars == <<files, env, jar, exchange>>

\* the MCPClient of the web interface: the object itself, whether
\* process.env.VERCEL is '1', whether start() has run, the ids whose 30-second
\* timer is scheduled, and one record for each promise of logOutfit,
\* getRecommendations and sendMessage with every call of its resolve or reject
VARIABLES mcpClient, vercel, started, timeouts, promises

clientVars == <<mcpClient, vercel, started, timeouts, promises>>

\* POST /api/chat: the Map conversationHistory from a key to an array, the
\* arrays themselves by reference (a request keeps its history array across
\* its awaits), the requests with their position in the handler,
\* process.env.OPENAI_API_KEY being set, and the photos under outfits/ in
\* Firebase Storage
VARIABLES conversationHistory, arrays, chats, openaiKey, storedPhotos

chatVars == <<conversationHistory, arrays, chats, openaiKey, storedPhotos>>

\* the service worker: how far the browser has brought it, Cache Storage,
\* the urls whose cache.put has not completed, and the last fetch it answered
VARIABLES swPhase, caches, pendingPuts, fetched

workerVars == <<swPhase, caches, pendingPuts, fetched>>

\* POST /upload-outfit: whether Firebase Storage is configured, the urls of
\* the photos stored there, the outfits sent to the MCP server by logOutfit,
\* and the requests with their position in the handler
VARIABLES firebaseStorage, storedPhotoUrls, loggedOutfits, uploads

uploadVars == <<firebaseStorage, storedPhotoUrls, loggedOutfits, uploads>>

\* the variables of the web interface beside its routes
interfaceVars == <<clientVars, chatVars, workerVars, uploadVars>>

\* the variables of the engine, the MCP server and the routes
baseVars == <<engineVars, recVars, serverVars, insightVars, toolVars, searchVars, webVars>>

\* the variables of the specifications further down
otherVars == <<insightVars, toolVars, searchVars, webVars, interfaceVars>>

vars == <<engineVars, recVars, serverVars, otherVars>>

MaxColors == 2

MaxGarments == 7

StyleVocabulary == {"formal", "casual", "minimalist", "bohemian", "edgy", "romantic", "classic"}

ColorVocabulary == {black, navy, red, NavyBlue}

OccasionVocabulary == {"work", "party"}

ColorInputs == UNION {[1..n -> ColorVocabulary] : n \in 0..MaxColors}

GarmentInputs == {[i \in 1..n |-> "item"] : n \in {0, MaxGarments - 1, MaxGarments}}

OccasionInputs == SUBSET OccasionVocabulary

Tags(styles, colorLists, occasions, garmentLists) ==
  {[style |-> s, colors |-> c, occasion |-> o, garments |-> g] :
     s \in styles, c \in colorLists, o \in occasions, g \in garmentLists}

\* complete tags: every style set with at most one colour, and every colour
\* list with at most one style tag
CompleteTagInputs ==
  Tags(SUBSET StyleVocabulary, {c \in ColorInputs : Len(c) <= 1}, OccasionInputs, GarmentInputs)
  \cup Tags({s \in SUBSET StyleVocabulary : Cardinality(s) <= 1}, ColorInputs, OccasionInputs, GarmentInputs)

\* tags in which each of the four arrays is absent, empty or a singleton
PartialTagInputs ==
  {s @@ c @@ o @@ g :
     s \in {EmptyObject, [style |-> {}], [style |-> {"casual"}]},
     c \in {EmptyObject, [colors |-> <<>>], [colors |-> <<navy>>]},
     o \in {EmptyObject, [occasion |-> {}], [occasion |-> {"work"}]},
     g \in {EmptyObject, [garments |-> <<>>], [garments |-> <<"item">>]}}

TagInputs == CompleteTagInputs \cup PartialTagInputs

Pending == [status |-> "pending"]

NoOutfit == [tags |-> EmptyObject]

EngineIdle == outfitArg = NoOutfit /\ analysis = Pending

RecIdle == context = EmptyObject /\ recommendations = Pending

InsightIdle == ratedOutfit = EmptyObject /\ insights = Pending

ToolsIdle == wardrobe = <<>>

SearchIdle == searchTable = <<>> /\ searchCriteria = EmptyObject /\ searchResults = Pending

NoExchange == [request |-> EmptyObject]

WebIdle == files = {} /\ env = EmptyObject /\ jar = FALSE /\ exchange = NoExchange

\* the constructor of MCPClient
NewMCPClient == [server |-> "null", messageId |-> 1, pendingRequests |-> {}]

ClientIdle ==
  /\ mcpClient = NewMCPClient
  /\ vercel = FALSE
  /\ started = FALSE
  /\ timeouts = {}
  /\ promises = <<>>

ChatIdle ==
  /\ conversationHistory = EmptyObject
  /\ arrays = <<>>
  /\ chats = <<>>
  /\ openaiKey = FALSE
  /\ storedPhotos = <<>>

NoFetch == [from |-> "none"]

WorkerIdle ==
  /\ swPhase = "none"
  /\ caches = EmptyObject
  /\ pendingPuts = {}
  /\ fetched = NoFetch

UploadIdle ==
  /\ firebaseStorage = FALSE
  /\ storedPhotoUrls = {}
  /\ loggedOutfits = {}
  /\ uploads = <<>>

InterfaceIdle == ClientIdle /\ ChatIdle /\ WorkerIdle /\ UploadIdle

OthersIdle == InsightIdle /\ ToolsIdle /\ SearchIdle /\ WebIdle /\ InterfaceIdle

NoReply == [tool |-> "none"]

ServerIdle ==
  /\ outfits = <<>>
  /\ calls = EmptyBag
  /\ reply = NoReply
  /\ analyses = {}

InitEngine ==
  /\ outfitArg \in {[tags |-> t] : t \in TagInputs}
  /\ analysis = Pending
  /\ RecIdle
  /\ ServerIdle
  /\ OthersIdle

AnalyzeOutfit ==
  /\ analysis = Pending
  /\ outfitArg # NoOutfit
  /\ analysis' = analyzeOutfit(outfitArg)
  /\ UNCHANGED <<outfitArg, recVars, serverVars, otherVars>>

NextEngine == AnalyzeOutfit

SpecEngine == InitEngine /\ [][NextEngine]_vars

(***************************************************************************)
(* generateRecommendations called on its own.                              *)
(***************************************************************************)
MaxDraws == 3

MaxClock == 1

\* the values Math.random() takes: k / MaxDraws, all in [0, 1)
RandomDraws == {FDivInt(FromInt(k), MaxDraws) : k \in 0..(MaxDraws - 1)}

ClockReadings == 1..MaxClock

ContextInputs ==
  {EmptyObject,
   [occasion |-> "work"],
   [occasion |-> "party", weather |-> [temperature |-> 75, condition |-> "sunny"], limit |-> 3]}

InitRec ==
  /\ context \in ContextInputs
  /\ recommendations = Pending
  /\ EngineIdle
  /\ ServerIdle
  /\ OthersIdle

GenerateRecommendations ==
  /\ recommendations = Pending
  /\ \E now \in ClockReadings, scoreDraws \in [1..Len(approaches) -> RandomDraws],
        otherDraw \in RandomDraws :
       recommendations' = Fulfilled(generateRecommendations(context, now, scoreDraws, otherDraw))
  /\ UNCHANGED <<context, engineVars, serverVars, otherVars>>

NextRec == GenerateRecommendations

SpecRec == InitRec /\ [][NextRec]_vars

(***************************************************************************)
(* The server handling tool calls.  A handler runs to its next await on    *)
(* the database; other calls run between its steps.                        *)
(***************************************************************************)
MaxOutfits == 2

\* the clients of the server; each has at most one call in flight
Clients == {"assistant", "web"}

MaxInFlight == Cardinality(Clients)

\* the calls in flight at some step of their handler
InFlight(pc) == {c \in BagToSet(calls) : c.pc = pc}

\* call c moves on to its next step, or returns
Continue(c, next) == (calls (-) SetToBag({c})) (+) SetToBag({next})

Return(c) == calls (-) SetToBag({c})

\* the highest rating a rate_outfit call submits
MaxRating == 9

GarmentsWorn == [i \in 1..MaxGarments |-> "item"]

LogArgs ==
  {EmptyObject,
   [occasion |-> {"work"}, style_tags |-> {"formal", "casual"}, colors |-> <<navy, red>>,
    garments |-> GarmentsWorn, season |-> "summer", mood |-> "confident"]}

\* what getCurrentSeason() returns while the server runs
CurrentSeasons == {"fall"}

RatingArgs ==
  {EmptyObject,
   [confidence |-> MaxRating, comfort |-> MaxRating - 5, success |-> MaxRating - 1,
    repeat_likelihood |-> MaxRating - 3]}

\* rate_outfit on the first outfit logged, or on an id no outfit has
RateArgs == {[outfit_id |-> id] @@ r : id \in {1, MaxOutfits + 1}, r \in RatingArgs}

\* the random draws of one generateRecommendations call made by the server:
\* the same draw for every candidate, or the draws in rotation
DrawVectors ==
  {[i \in 1..Len(approaches) |-> d] : d \in RandomDraws}
  \cup {[i \in 1..Len(approaches) |-> FDivInt(FromInt(i % MaxDraws), MaxDraws)]}

\* for each arguments object, what handleGetRecommendations can return
recommendationResults ==
  [args \in ContextInputs |->
     {ToolResult("get_outfit_recommendations",
                 formattedRecs(generateRecommendations(args, now, scoreDraws, otherDraw))) :
        now \in ClockReadings, scoreDraws \in DrawVectors, otherDraw \in RandomDraws}]

\* the outfits handleLogOutfit can pass to analyzeOutfit, each with the way
\* the call settles
loggedOutfitAnalyses ==
  {[outfit |-> o, aiAnalysis |-> analyzeOutfit(o)] :
     o \in {createOutfit(args, id, currentSeason) :
              args \in LogArgs, id \in 1..MaxOutfits, currentSeason \in CurrentSeasons}}

\* analyzeOutfit, looked up for an outfit that handleLogOutfit created
analyzeLoggedOutfit(created) ==
  (CHOOSE a \in loggedOutfitAnalyses : a.outfit = created).aiAnalysis

InitServer ==
  /\ ServerIdle
  /\ EngineIdle
  /\ RecIdle
  /\ OthersIdle

\* handleLogOutfit up to the INSERT of createOutfit
LogOutfit(args) ==
  /\ BagCardinality(calls) < MaxInFlight
  /\ Len(outfits) < MaxOutfits
  /\ \E currentSeason \in CurrentSeasons :
       LET created == createOutfit(args, Len(outfits) + 1, currentSeason)
       IN  /\ outfits' = Append(outfits, insertOutfit(created))
           /\ calls' = calls (+) SetToBag({[pc |-> "analyzeOutfit", outfit |-> created]})
  /\ UNCHANGED <<reply, analyses, engineVars, recVars, otherVars>>

LogOutfitAnalyzed(c, aiAnalysis) ==
  /\ analyses' = analyses \cup {[outfit |-> c.outfit, result |-> aiAnalysis,
                                   after |-> reply.tool]}
  /\ IF aiAnalysis.status = "rejected"
     THEN /\ reply' = ToolError("log_outfit", aiAnalysis.reason)
          /\ calls' = Return(c)
     ELSE /\ calls' = Continue(c, [pc |-> "updateOutfitAnalysis", outfit |-> c.outfit,
                                   aiAnalysis |-> aiAnalysis.value])
          /\ UNCHANGED reply

\* handleLogOutfit from the outfit createOutfit resolved with to the UPDATE
\* of updateOutfitAnalysis being issued
LogOutfitAnalyze(c) ==
  /\ c \in InFlight("analyzeOutfit")
  /\ LogOutfitAnalyzed(c, analyzeLoggedOutfit(c.outfit))
  /\ UNCHANGED <<outfits, engineVars, recVars, otherVars>>

\* the UPDATE of updateOutfitAnalysis, and handleLogOutfit returning
LogOutfitStore(c) ==
  /\ c \in InFlight("updateOutfitAnalysis")
  /\ outfits' = updateOutfitAnalysis(outfits, c.outfit.id, c.aiAnalysis)
  /\ reply' = ToolResult("log_outfit", [outfit_id |-> c.outfit.id,
                                        summary |-> c.aiAnalysis.summary])
  /\ calls' = Return(c)
  /\ UNCHANGED <<analyses, engineVars, recVars, otherVars>>

\* handleRateOutfit up to the UPDATE of updateOutfitRatings
RateOutfit(args) ==
  /\ BagCardinality(calls) < MaxInFlight
  /\ outfits' = updateOutfitRatings(outfits, args.outfit_id, args)
  /\ calls' = calls (+) SetToBag({[pc |-> "getOutfit", args |-> args]})
  /\ UNCHANGED <<reply, analyses, engineVars, recVars, otherVars>>

\* getOutfit, generateRatingInsights and handleRateOutfit returning
RateOutfitGet(c) ==
  /\ c \in InFlight("getOutfit")
  /\ LET found == getOutfit(outfits, c.args.outfit_id)
     IN  reply' = IF found = {}
                  THEN ToolError("rate_outfit", "not found")
                  ELSE ToolResult("rate_outfit",
                                  generateRatingInsights(CHOOSE o \in found : TRUE))
  /\ calls' = Return(c)
  /\ UNCHANGED <<outfits, analyses, engineVars, recVars, otherVars>>

\* handleGetRecommendations: no await on the database
GetRecommendations(args) ==
  /\ reply' \in recommendationResults[args]
  /\ UNCHANGED <<outfits, calls, analyses, engineVars, recVars, otherVars>>

Next ==
  \/ \E args \in LogArgs : LogOutfit(args)
  \/ \E c \in BagToSet(calls) : LogOutfitAnalyze(c)
  \/ \E c \in BagToSet(calls) : LogOutfitStore(c)
  \/ \E args \in RateArgs : RateOutfit(args)
  \/ \E c \in BagToSet(calls) : RateOutfitGet(c)
  \/ \E args \in ContextInputs : GetRecommendations(args)

Spec == InitServer /\ [][Next]_vars

(***************************************************************************)
(* generateRatingInsights called on its own, on an outfit with no ratings  *)
(* or with a ratings triple on the scale of the rate_outfit schema.        *)
(***************************************************************************)
RatingMinimum == 1

RatingMaximum == 10

RatingScale == RatingMinimum..RatingMaximum

RatedInputs ==
  {[id |-> 1]}
  \cup {[id |-> 1, ratings |-> [confidence |-> c, comfort |-> f, success |-> u]] :
          c \in RatingScale, f \in RatingScale, u \in RatingScale}

InitInsights ==
  /\ ratedOutfit \in RatedInputs
  /\ insights = Pending
  /\ EngineIdle
  /\ RecIdle
  /\ ServerIdle
  /\ ToolsIdle
  /\ SearchIdle
  /\ WebIdle
  /\ InterfaceIdle

GenerateRatingInsights ==
  /\ insights = Pending
  /\ ratedOutfit # EmptyObject
  /\ insights' = Fulfilled(generateRatingInsights(ratedOutfit))
  /\ UNCHANGED <<ratedOutfit, engineVars, recVars, serverVars, toolVars, searchVars, webVars, interfaceVars>>

NextInsights == GenerateRatingInsights

SpecInsights == InitInsights /\ [][NextInsights]_vars

(***************************************************************************)
(* The server with one client that awaits each response before its next    *)
(* request: tools/list, tools/call with every tool name, resources/read.   *)
(***************************************************************************)
MaxWardrobe == 2

WardrobeArgs ==
  {[item_name |-> "blazer", category |-> "outerwear", colors |-> <<navy>>,
    style_tags |-> {"formal"}],
   [item_name |-> "tee", category |-> "tops"]}

PatternArgs == {EmptyObject, [analysis_type |-> "color_preferences", time_period |-> "week"]}

GapArgs == {EmptyObject, [focus_area |-> "professional"]}

\* tool names the client calls: the listed ones and one that is not listed
CalledTools == {listedTools[i] : i \in DOMAIN listedTools} \cup {"no_such_tool"}

Resources == {"outfit://recent", "wardrobe://inventory", "report://monthly", "outfit://all"}

Dates == {[year |-> 2025, month |-> m, date |-> 15] : m \in {0, 11}}

\* handleLogOutfit from the call to its return: createOutfit, analyzeOutfit,
\* updateOutfitAnalysis
HandleLogOutfit(args) ==
  /\ Len(outfits) < MaxOutfits
  /\ \E currentSeason \in CurrentSeasons :
       LET created == createOutfit(args, Len(outfits) + 1, currentSeason)
           inserted == Append(outfits, insertOutfit(created))
           aiAnalysis == analyzeLoggedOutfit(created)
       IN  IF aiAnalysis.status = "rejected"
           THEN /\ outfits' = inserted
                /\ reply' = ToolError("log_outfit", aiAnalysis.reason)
           ELSE /\ outfits' = updateOutfitAnalysis(inserted, created.id, aiAnalysis.value)
                /\ reply' = ToolResult("log_outfit",
                                       [outfit_id |-> created.id,
                                        summary |-> aiAnalysis.value.summary])
  /\ UNCHANGED <<calls, analyses, engineVars, recVars, otherVars>>

\* handleRateOutfit from the call to its return: updateOutfitRatings,
\* getOutfit, generateRatingInsights
HandleRateOutfit(args) ==
  /\ outfits' = updateOutfitRatings(outfits, args.outfit_id, args)
  /\ LET found == getOutfit(outfits', args.outfit_id)
     IN  reply' = IF found = {}
                  THEN ToolError("rate_outfit", "not found")
                  ELSE ToolResult("rate_outfit",
                                  generateRatingInsights(CHOOSE o \in found : TRUE))
  /\ UNCHANGED <<calls, analyses, engineVars, recVars, otherVars>>

\* handleAddWardrobeItem: the INSERT of addWardrobeItem, then getWardrobeCount
AddWardrobeItem(args) ==
  /\ Len(wardrobe) < MaxWardrobe
  /\ LET item == addWardrobeItem(args, Len(wardrobe) + 1)
     IN  /\ wardrobe' = Append(wardrobe, insertWardrobeItem(item))
         /\ reply' = ToolResult("add_wardrobe_item",
                                [name |-> item.name, category |-> item.category,
                                 colors |-> item.colors, styleTags |-> item.styleTags,
                                 count |-> getWardrobeCount(wardrobe')])
  /\ UNCHANGED <<outfits, calls, analyses, engineVars, recVars, insightVars, searchVars,
                 webVars, interfaceVars>>

\* a variant of handleAnalyzePatterns that clears the wardrobe it reports on
AnalyzePatternsClearing(args) ==
  /\ reply' = ToolResult("analyze_style_patterns", analyzeStylePatterns(args))
  /\ wardrobe' = <<>>
  /\ UNCHANGED <<outfits, calls, analyses, engineVars, recVars, insightVars, searchVars,
                 webVars, interfaceVars>>

\* handleAnalyzePatterns
AnalyzePatterns(args) ==
  /\ LET patterns == analyzeStylePatterns(args)
     IN  reply' = ToolResult("analyze_style_patterns",
                             [time_period |-> orElse(args, "time_period", "undefined"),
                              insights |-> [i \in DOMAIN patterns.insights |->
                                              <<patterns.insights[i].category,
                                                patterns.insights[i].description,
                                                patterns.insights[i].trend>>],
                              recommendations |-> patterns.recommendations])
  /\ UNCHANGED <<outfits, calls, analyses, engineVars, recVars, otherVars>>

\* handleWardrobeGapAnalysis
WardrobeGapAnalysis(args) ==
  /\ LET gaps == analyzeWardrobeGaps(args)
     IN  reply' = ToolResult("wardrobe_gap_analysis",
                             [focus_area |-> orElse(args, "focus_area", "undefined"),
                              gaps |-> [i \in DOMAIN gaps |->
                                          <<gaps[i].category, gaps[i].priority,
                                            gaps[i].description, gaps[i].suggestedItems,
                                            gaps[i].estimatedBudget>>]])
  /\ UNCHANGED <<outfits, calls, analyses, engineVars, recVars, otherVars>>

\* the default case of the switch, and the catch around it
UnknownTool(name) ==
  /\ name \notin dispatchedTools
  /\ reply' = ToolError(name, "Unknown tool")
  /\ UNCHANGED <<outfits, calls, analyses, engineVars, recVars, otherVars>>

\* the ListTools handler
ListTools ==
  /\ reply' = ToolResult("tools/list", listedTools)
  /\ UNCHANGED <<outfits, calls, analyses, engineVars, recVars, otherVars>>

\* the ReadResource handler; the rows carry no timestamp here, so how many
\* of the last rows getRecentOutfits finds in the last 30 days is an input
ReadResource(uri) ==
  /\ \/ /\ uri = "outfit://recent"
        /\ \E older \in 0..Len(outfits) :
             reply' = ToolResult("resources/read",
                                 [uri |-> uri,
                                  text |-> [i \in 1..(Len(outfits) - older) |->
                                              rowToOutfit(outfits[Len(outfits) + 1 - i])]])
     \/ /\ uri = "wardrobe://inventory"
        /\ reply' = ToolResult("resources/read",
                               [uri |-> uri, text |-> getWardrobeInventory(wardrobe)])
     \/ /\ uri = "report://monthly"
        /\ \E now \in Dates :
             reply' = ToolResult("resources/read",
                                 [uri |-> uri, text |-> generateMonthlyReport(now)])
     \/ /\ uri \notin {"outfit://recent", "wardrobe://inventory", "report://monthly"}
        /\ reply' = ToolError("resources/read", "Unknown resource")
  /\ UNCHANGED <<outfits, calls, analyses, engineVars, recVars, otherVars>>

InitTools ==
  /\ ServerIdle
  /\ EngineIdle
  /\ RecIdle
  /\ OthersIdle

\* a request of the client, handled to its response
NextTools ==
  \/ \E args \in LogArgs : HandleLogOutfit(args)
  \/ \E args \in RateArgs : HandleRateOutfit(args)
  \/ \E args \in ContextInputs : GetRecommendations(args)
  \/ \E args \in WardrobeArgs : AddWardrobeItem(args)
  \/ \E args \in PatternArgs : AnalyzePatterns(args)
  \/ \E args \in GapArgs : WardrobeGapAnalysis(args)
  \/ \E name \in CalledTools : UnknownTool(name)
  \/ ListTools
  \/ \E uri \in Resources : ReadResource(uri)

SpecTools == InitTools /\ [][NextTools]_vars

(***************************************************************************)
(* searchOutfits called on its own, on a table that log_outfit and         *)
(* rate_outfit calls built, one outfit a day.                              *)
(***************************************************************************)
MaxStored == 2

SearchLogArgs ==
  {[occasion |-> {work}, style_tags |-> {casual}, season |-> summer],
   [occasion |-> {party}]}

SearchRatingArgs == {EmptyObject, [confidence |-> 8, comfort |-> 5, success |-> 3]}

\* the row of the outfit logged on this day, with the ratings it was given
storedRow(day, data, ratings) ==
  updateOutfitRatings(<<insertOutfit(createOutfit(data, day, fall)) @@ [timestamp |-> day]>>,
                      day, ratings)[1]

SearchTables ==
  UNION {[1..n -> {storedRow(0, data, ratings) :
                     data \in SearchLogArgs, ratings \in SearchRatingArgs}] :
           n \in 0..MaxStored}

\* the table with each row given the id and the timestamp of its day
dated(table) == [i \in DOMAIN table |-> [table[i] EXCEPT !.id = i, !.timestamp = i]]

SearchCriteria ==
  {t @@ c @@ u @@ o @@ n @@ d @@ l :
     t \in {EmptyObject, [tags |-> <<work>>], [tags |-> <<<<"a">>>>]},
     c \in {EmptyObject, [min_confidence |-> 6]},
     u \in {EmptyObject, [min_success |-> 6]},
     o \in {EmptyObject, [occasion |-> party]},
     n \in {EmptyObject, [season |-> summer]},
     d \in {EmptyObject, [date_range |-> [start |-> 2, end |-> 2]]},
     l \in {EmptyObject, [limit |-> 1]}}

InitSearch ==
  /\ searchTable \in {dated(table) : table \in SearchTables}
  /\ searchCriteria \in SearchCriteria
  /\ searchResults = Pending
  /\ EngineIdle
  /\ RecIdle
  /\ ServerIdle
  /\ InsightIdle
  /\ ToolsIdle
  /\ WebIdle
  /\ InterfaceIdle

SearchOutfits ==
  /\ searchResults = Pending
  /\ searchResults' = Fulfilled(searchOutfits(searchTable, searchCriteria))
  /\ UNCHANGED <<searchTable, searchCriteria, engineVars, recVars, serverVars,
                 insightVars, toolVars, webVars, interfaceVars>>

NextSearch == SearchOutfits

SpecSearch == InitSearch /\ [][NextSearch]_vars

(***************************************************************************)
(* The web interface answering the requests of one browser.                *)
(***************************************************************************)
PageFiles == {"index.html", "app.html", "mobile.html"}

Environments == {EmptyObject, [STYLISTI_PASSWORD |-> "secret"]}

Paths == {"/", "/app", "/app.html", "/login", "/mobile", "/verify-password", "/verify-login",
          "/missing"}

Bodies == {EmptyObject} \cup {[password |-> p] : p \in {"default_password", "secret", "guess"}}

Requests ==
  {[method |-> "GET", path |-> p, body |-> EmptyObject] : p \in Paths}
  \cup {[method |-> "POST", path |-> p, body |-> b] :
          p \in {"/verify-password", "/verify-login", "/"}, b \in Bodies}

InitWeb ==
  /\ files \in SUBSET PageFiles
  /\ env \in Environments
  /\ jar = FALSE
  /\ exchange = NoExchange
  /\ EngineIdle
  /\ RecIdle
  /\ ServerIdle
  /\ InsightIdle
  /\ ToolsIdle
  /\ SearchIdle
  /\ InterfaceIdle

\* the browser sends a request with the cookies it holds, and keeps the
\* cookie of the response
HandleRequest(sent) ==
  LET req == sent @@ [cookie |-> jar]
      res == handle(routes, files, req, env)
  IN  /\ exchange' = [request |-> req, response |-> res]
      /\ jar' = (jar \/ res.setCookie)
      /\ UNCHANGED <<files, env, engineVars, recVars, serverVars, insightVars, toolVars,
                     searchVars, interfaceVars>>

\* the cookie reaches its maxAge
CookieExpires ==
  /\ jar
  /\ jar' = FALSE
  /\ UNCHANGED <<files, env, exchange, engineVars, recVars, serverVars, insightVars,
                 toolVars, searchVars, interfaceVars>>

NextWeb ==
  \/ \E sent \in Requests : HandleRequest(sent)
  \/ CookieExpires

SpecWeb == InitWeb /\ [][NextWeb]_vars

(***************************************************************************)
(* Properties of analyzeOutfit, read off the settled call.                 *)
(***************************************************************************)
Settled == analysis.status = "fulfilled"

\* the incompatible pairs of the specification, each as a set
IncompatiblePairs == {{"formal", "casual"}, {"minimalist", "bohemian"}, {"edgy", "romantic"}}

ConflictsIn(styles) == Cardinality({pair \in IncompatiblePairs : pair \subseteq styles})

\* styleCoherence of the same outfit with the style tags replaced
CoherenceWith(styles) == calculateStyleCoherence([tags |-> [outfitArg.tags EXCEPT !.style = styles]])

StyleCoherenceFormula ==
  LET styles == outfitArg.tags.style
      score  == analysis.value.styleCoherence
  IN  /\ styles = {} => score = Num0_5
      /\ styles # {} => /\ score = FSub(Num0_8, FMul(FromInt(ConflictsIn(styles)), Num0_2))
                        /\ FLe(Num0, score) /\ FLe(score, Num1)
      /\ {"formal", "casual"} \subseteq styles
           => /\ FLt(score, CoherenceWith(styles \ {"casual"}))
              /\ FLt(score, CoherenceWith(styles \ {"formal"}))

\* C1, with the bound in doubles: styleCoherence is 0.5 for an empty tags.style and otherwise
\* the double 0.8 - conflicts * 0.2, within [0,1], where conflicts counts the
\* incompatible pairs with both members in tags.style; a style set with both
\* formal and casual scores at most the double 0.8 - 0.2, which is
\* 0.6000000000000001, and strictly less than the same set without formal or
\* without casual.
C1_StyleCoherence ==
  Settled => /\ StyleCoherenceFormula
             /\ {"formal", "casual"} \subseteq outfitArg.tags.style
                  => FLe(analysis.value.styleCoherence, FSub(Num0_8, Num0_2))

\* C1 as stated: the same, with a formal and casual style set scoring at most 0.6.
C1_AtMostSixTenths ==
  Settled => /\ StyleCoherenceFormula
             /\ {"formal", "casual"} \subseteq outfitArg.tags.style
                  => FLe(analysis.value.styleCoherence, Num0_6)

\* an outfit with all three conflicts was analysed
C1_Witness ==
  /\ Settled
  /\ UNION IncompatiblePairs \subseteq outfitArg.tags.style
  /\ analysis.value.styleCoherence = FSub(Num0_8, FMul(FromInt(3), Num0_2))

IsNeutral(color) == \E k \in 1..Len(neutrals) : includes(toLowerCase(color), neutrals[k])

NeutralCount(colors) == Cardinality({i \in 1..Len(colors) : IsNeutral(colors[i])})

\* C2: colorHarmony is 0.5 for no colour, 0.9 for one colour, and otherwise
\* 0.5 + 0.4 * (colours containing a neutral name, whatever the case) / (colours);
\* it lies in [0.5, 0.9]; [black, navy] gives 0.9 and [red, navy] gives 0.7.
C2_ColorHarmony ==
  Settled =>
    LET colors  == outfitArg.tags.colors
        harmony == analysis.value.colorHarmony
    IN  /\ Len(colors) = 0 => harmony = Num0_5
        /\ Len(colors) = 1 => harmony = Num0_9
        /\ Len(colors) > 1 =>
             harmony = FAdd(Num0_5, FMul(Num0_4, FDivInt(FromInt(NeutralCount(colors)), Len(colors))))
        /\ FLe(Num0_5, harmony) /\ FLe(harmony, Num0_9)
        /\ colors = <<black, navy>> => harmony = Num0_9
        /\ colors = <<red, navy>> => harmony = Lit(7, 10)

\* a list in which only 'Navy blue' is neutral was analysed
C2_Witness ==
  /\ Settled
  /\ outfitArg.tags.colors = <<red, NavyBlue>>
  /\ analysis.value.colorHarmony = Lit(7, 10)

\* C3: occasionAppropriateness is 0.5 for an empty tags.occasion and 0.8 for
\* any other, whatever the occasions are.
C3_OccasionFit ==
  Settled => analysis.value.occasionAppropriateness =
               IF outfitArg.tags.occasion = {} THEN Num0_5 ELSE Num0_8

\* an outfit for an occasion other than work was analysed
C3_Witness ==
  /\ Settled
  /\ outfitArg.tags.occasion = {"party"}
  /\ analysis.value.occasionAppropriateness = Num0_8

\* the mean of the three scores of the settled analysis
MeanScore ==
  FDivInt(FAdd(FAdd(analysis.value.styleCoherence, analysis.value.colorHarmony),
               analysis.value.occasionAppropriateness), 3)

\* C4: the summary is the excellent message exactly when the mean of the three
\* scores is >= 0.8, the good message exactly when 0.6 <= mean < 0.8, and the
\* needs-adjustment message exactly when mean < 0.6.
C4_Summary ==
  Settled =>
    /\ analysis.value.summary = SummaryExcellent <=> FGe(MeanScore, Num0_8)
    /\ analysis.value.summary = SummaryGood <=> (FGe(MeanScore, Num0_6) /\ FLt(MeanScore, Num0_8))
    /\ analysis.value.summary = SummaryAdjust <=> FLt(MeanScore, Num0_6)

\* the mean is exactly 0.6, the lower edge of the good tier
C4_Witness ==
  /\ Settled
  /\ MeanScore = Num0_6
  /\ analysis.value.summary = SummaryGood

Positions(seq, x) == {i \in 1..Len(seq) : seq[i] = x}

\* seq lists exactly the entries of order whose condition holds, in that order
ListsInOrder(seq, order, holds(_)) ==
  /\ \A k \in 1..Len(order) :
       Cardinality(Positions(seq, order[k])) = IF holds(k) THEN 1 ELSE 0
  /\ \A i \in 1..Len(seq) : \E k \in 1..Len(order) : seq[i] = order[k]
  /\ \A i, j \in 1..Len(seq) :
       i < j => \A k, l \in 1..Len(order) : (seq[i] = order[k] /\ seq[j] = order[l]) => k < l

ImprovementDue(k) ==
  CASE k = 1 -> FLt(analysis.value.styleCoherence, Num0_6)
    [] k = 2 -> FLt(analysis.value.colorHarmony, Num0_6)
    [] k = 3 -> Len(outfitArg.tags.garments) > 6

\* C5: suggestedImprovements holds the style entry iff styleCoherence < 0.6,
\* the colours entry iff colorHarmony < 0.6 and the simplify entry iff there
\* are more than 6 garments, each at most once and in that order.
C5_Improvements ==
  Settled => ListsInOrder(analysis.value.suggestedImprovements,
                          <<ImproveStyle, ImproveColors, ImproveSimplify>>, ImprovementDue)

\* an analysis that lists all three entries at once
C5_Witness ==
  /\ Settled
  /\ analysis.value.suggestedImprovements = <<ImproveStyle, ImproveColors, ImproveSimplify>>

ContainsAnyCase(color, name) == includes(toLowerCase(color), name)

FactorDue(k) ==
  CASE k = 1 -> "classic" \in outfitArg.tags.style
    [] k = 2 -> \E i \in 1..Len(outfitArg.tags.colors) :
                   \/ ContainsAnyCase(outfitArg.tags.colors[i], navy)
                   \/ ContainsAnyCase(outfitArg.tags.colors[i], black)
    [] k = 3 -> "work" \in outfitArg.tags.occasion

\* C6: confidenceFactors holds the classic entry iff 'classic' is in
\* tags.style, the dark-colours entry iff some colour contains 'navy' or
\* 'black' whatever the case (as 'Navy blue' does), and the work entry iff
\* 'work' is in tags.occasion, each once.
C6_ConfidenceFactors ==
  Settled => ListsInOrder(analysis.value.confidenceFactors,
                          <<FactorClassic, FactorDark, FactorWork>>, FactorDue)

\* C7: analyzeOutfit settles with a result, never with an error, whichever of
\* tags.style, tags.colors, tags.occasion and tags.garments are present,
\* absent or empty.
C7_NeverThrows == analysis.status # "rejected"

(***************************************************************************)
(* Properties of generateRecommendations, read off the settled call.       *)
(***************************************************************************)
Recommended == recommendations.status = "fulfilled"

\* C9: whatever the context, the empty one included, the result has exactly 5
\* recommendations, one for each of the five strategies, each with that
\* strategy's reasoning list of at least 3 strings.
C9_FivePerStrategy ==
  Recommended =>
    /\ Len(recommendations.value) = 5
    /\ \A name \in {"high_confidence_historical", "weather_optimized", "occasion_perfect",
                     "comfort_focused", "style_exploration"} :
         /\ Len(reasoningMap[name]) >= 3
         /\ Cardinality({i \in 1..Len(recommendations.value) :
                           recommendations.value[i].reasoning = reasoningMap[name]}) = 1

\* the empty context was answered
C9_Witness ==
  /\ Recommended
  /\ context = EmptyObject
  /\ Len(recommendations.value) = 5

\* C10: the returned sequence is in non-increasing order of score, whatever
\* scores the five candidates drew.
C10_SortedByScore ==
  Recommended =>
    \A i, j \in 1..Len(recommendations.value) :
      i < j => FGe(recommendations.value[i].score, recommendations.value[j].score)

\* the candidates drew increasing scores, so the sort reversed them: the last
\* strategy comes first, with a strictly higher score than the first strategy
C10_Witness ==
  /\ Recommended
  /\ recommendations.value[1].reasoning = reasoningMap.style_exploration
  /\ recommendations.value[5].reasoning = reasoningMap.high_confidence_historical
  /\ FGt(recommendations.value[1].score, recommendations.value[5].score)

C11_NoRatingsMessage ==
  (insights # Pending /\ ~has(ratedOutfit, "ratings")) => insights = Fulfilled(<<InsightNoRatings>>)

\* the call on an outfit without ratings has settled
C11_Witness ==
  /\ ratedOutfit # EmptyObject
  /\ ~has(ratedOutfit, "ratings")
  /\ insights.status = "fulfilled"
  /\ Len(insights.value) = 1

InsightNotes ==
  <<InsightHighConfidence, InsightLowConfidence, InsightVeryComfortable, InsightLowComfort,
    InsightSuccessful, InsightTradeOff>>

NoteDue(k) ==
  CASE k = 1 -> ratedOutfit.ratings.confidence >= 8
    [] k = 2 -> ratedOutfit.ratings.confidence < 8 /\ ratedOutfit.ratings.confidence <= 4
    [] k = 3 -> ratedOutfit.ratings.comfort >= 8
    [] k = 4 -> ratedOutfit.ratings.comfort < 8 /\ ratedOutfit.ratings.comfort <= 4
    [] k = 5 -> ratedOutfit.ratings.success >= 8
    [] k = 6 -> ratedOutfit.ratings.confidence > ratedOutfit.ratings.comfort

NineThreeEight == [confidence |-> 9, comfort |-> 3, success |-> 8]

\* C12: for every ratings triple in 1..10 the result lists, in this order, the
\* confidence-high note iff confidence >= 8, else the confidence-low note iff
\* confidence <= 4; the comfort-high note iff comfort >= 8, else the
\* comfort-low note iff comfort <= 4; the save-this-combination note iff
\* success >= 8; the style-over-comfort note iff confidence > comfort.  The
\* triple (9,3,8) gets exactly 4 notes, no result has more than 4, and a high
\* and a low note for one rating never come together.
C12_RatingNotes ==
  (insights.status = "fulfilled" /\ has(ratedOutfit, "ratings")) =>
    /\ ListsInOrder(insights.value, InsightNotes, NoteDue)
    /\ Len(insights.value) <= 4
    /\ Positions(insights.value, InsightHighConfidence) = {}
         \/ Positions(insights.value, InsightLowConfidence) = {}
    /\ Positions(insights.value, InsightVeryComfortable) = {}
         \/ Positions(insights.value, InsightLowComfort) = {}
    /\ ratedOutfit.ratings = NineThreeEight => Len(insights.value) = 4

\* the triple (9,3,8) was answered with its four notes
C12_Witness ==
  /\ insights.status = "fulfilled"
  /\ has(ratedOutfit, "ratings")
  /\ ratedOutfit.ratings = NineThreeEight
  /\ insights.value = <<InsightHighConfidence, InsightLowComfort, InsightSuccessful,
                        InsightTradeOff>>

(***************************************************************************)
(* Properties of the outfits table under log_outfit and rate_outfit.       *)
(***************************************************************************)
\* the aiAnalysis read back from a row, as a list of none or one
storedAnalysis(row) == IF has(row, "ai_analysis") THEN <<rowToOutfit(row).aiAnalysis>> ELSE <<>>

\* analyzeOutfit on each tags object that createOutfit can store
analysesOfLoggedTags ==
  {[tags |-> t, result |-> analyzeOutfit([tags |-> t])] :
     t \in {createOutfit(args, 1, season).tags : args \in LogArgs, season \in CurrentSeasons}}

\* a is what analyzeOutfit gives for the tags t
IsAnalysisOfTags(t, a) ==
  IF \E p \in analysesOfLoggedTags : p.tags = t
  THEN [tags |-> t, result |-> Fulfilled(a)] \in analysesOfLoggedTags
  ELSE Fulfilled(a) = analyzeOutfit([tags |-> t])

LoggingInFlight(id) ==
  \E c \in InFlight("analyzeOutfit") \cup InFlight("updateOutfitAnalysis") : c.outfit.id = id

\* a step of handleRateOutfit: a call enters or leaves its await of getOutfit
RateOutfitStep ==
  \/ \E args \in RateArgs : calls' = calls (+) SetToBag({[pc |-> "getOutfit", args |-> args]})
  \/ \E c \in InFlight("getOutfit") : calls' = Return(c)

\* C13: in every state reached by log_outfit and rate_outfit calls, a stored
\* outfit that has an aiAnalysis has the one analyzeOutfit gives for its
\* stored tags; an outfit whose log_outfit has returned has its analysis
\* attached; and no step of rate_outfit changes the aiAnalysis of any outfit.
C13_AnalysisOfStoredTags ==
  /\ [](\A i \in DOMAIN outfits :
          /\ has(outfits[i], "ai_analysis") =>
               IsAnalysisOfTags(rowToOutfit(outfits[i]).tags, rowToOutfit(outfits[i]).aiAnalysis)
          /\ ~has(outfits[i], "ai_analysis") => LoggingInFlight(outfits[i].id))
  /\ [][RateOutfitStep =>
          /\ DOMAIN outfits' = DOMAIN outfits
          /\ \A i \in DOMAIN outfits : storedAnalysis(outfits'[i]) = storedAnalysis(outfits[i])]_vars

\* an outfit with conflicting styles was logged, analysed and then rated, and
\* rate_outfit has returned with nothing left in flight
C13_Witness ==
  /\ calls = EmptyBag
  /\ reply.tool = "rate_outfit" /\ ~reply.isError
  /\ \E i \in DOMAIN outfits :
       /\ has(outfits[i], "ai_analysis")
       /\ has(outfits[i], "confidence_rating")
       /\ outfits[i].style_tags = {"formal", "casual"}
       /\ outfits[i].ai_analysis.styleCoherence = FSub(Num0_8, Num0_2)

Stored(id) == \E i \in DOMAIN outfits : outfits[i].id = id

\* C16: rate_outfit with an outfit id that no stored outfit has ends in an
\* error result saying not found, not in a success, and its steps leave the
\* outfits table and the wardrobe table as they were.
C16_UnknownOutfitNotFound ==
  [][/\ \A args \in RateArgs :
          (calls' = calls (+) SetToBag({[pc |-> "getOutfit", args |-> args]})
             /\ ~Stored(args.outfit_id))
            => outfits' = outfits /\ wardrobe' = wardrobe
     /\ \A c \in InFlight("getOutfit") :
          (calls' = Return(c) /\ ~Stored(c.args.outfit_id))
            => /\ outfits' = outfits
               /\ wardrobe' = wardrobe
               /\ reply'.tool = "rate_outfit"
               /\ reply'.isError
               /\ reply'.content = "not found"]_vars

\* rate_outfit on an unknown id returned its error while a rated and analysed
\* outfit was in the table
C16_Witness ==
  /\ reply.tool = "rate_outfit"
  /\ reply.isError
  /\ reply.content = "not found"
  /\ \A c \in BagToSet(calls) : c.pc # "getOutfit"
  /\ \E i \in DOMAIN outfits :
       has(outfits[i], "confidence_rating") /\ has(outfits[i], "ai_analysis")

\* the ratings read back for the outfit of a rate_outfit call that is returning
ReadBack(c) == (CHOOSE o \in getOutfit(outfits', c.args.outfit_id) : TRUE).ratings

RatingsSubmitted(args) ==
  {"confidence", "comfort", "success", "repeat_likelihood"} \subseteq DOMAIN args

\* C17: when rate_outfit returns with success for an existing outfit, having
\* been given confidence, comfort, success and repeat_likelihood, and no other
\* rate_outfit call is in flight, the outfit read back has ratings whose
\* confidence, comfort, success and repeatLikelihood are the values given.
C17_RatingsReadBack ==
  [][\A c \in InFlight("getOutfit") :
       (/\ calls' = Return(c)
        /\ InFlight("getOutfit")' = {}
        /\ Stored(c.args.outfit_id)
        /\ RatingsSubmitted(c.args))
         => /\ ~reply'.isError
            /\ has(CHOOSE o \in getOutfit(outfits', c.args.outfit_id) : TRUE, "ratings")
            /\ ReadBack(c).confidence = c.args.confidence
            /\ ReadBack(c).comfort = c.args.comfort
            /\ ReadBack(c).success = c.args.success
            /\ has(ReadBack(c), "repeatLikelihood")
            /\ ReadBack(c).repeatLikelihood = c.args.repeat_likelihood]_vars

(***************************************************************************)
(* Properties of the server answering one client.                          *)
(***************************************************************************)
\* the step returned the result of a call that goes through
\* analyzeStylePatterns, analyzeWardrobeGaps, generateRecommendations or
\* generateMonthlyReport
AnalysisReturned ==
  \/ reply'.tool \in {"analyze_style_patterns", "wardrobe_gap_analysis",
                      "get_outfit_recommendations"}
  \/ /\ reply'.tool = "resources/read"
     /\ ~reply'.isError
     /\ reply'.content.uri = "report://monthly"

\* C14: a call of analyzeStylePatterns, analyzeWardrobeGaps,
\* generateMonthlyReport or generateRecommendations leaves the outfits and the
\* wardrobe items as they were, every row and every column; and the handler
\* that calls generateRatingInsights leaves the store as its own UPDATE of the
\* ratings made it, the wardrobe items untouched.
C14_AnalysisReadOnly ==
  [][/\ AnalysisReturned => outfits' = outfits /\ wardrobe' = wardrobe
     /\ reply'.tool = "rate_outfit"
          => /\ wardrobe' = wardrobe
             /\ \E args \in RateArgs :
                  outfits' = updateOutfitRatings(outfits, args.outfit_id, args)]_vars

StoreFilled ==
  /\ Len(wardrobe) = MaxWardrobe
  /\ Len(outfits) = MaxOutfits
  /\ has(outfits[1], "confidence_rating")
  /\ \A i \in DOMAIN outfits : has(outfits[i], "ai_analysis")

\* the monthly report was read with outfits and wardrobe items stored, one
\* outfit rated
C14_Witness ==
  /\ StoreFilled
  /\ reply.tool = "resources/read"
  /\ ~reply.isError
  /\ reply.content.uri = "report://monthly"

\* C15: every wardrobe item enters the table with worn_count 0, and no step
\* of the server removes an item, lowers an item's worn_count or makes it
\* negative.
C15_WornCountNeverDecreases ==
  /\ [](\A i \in DOMAIN wardrobe : wardrobe[i].worn_count >= 0)
  /\ [][/\ Len(wardrobe') >= Len(wardrobe)
        /\ \A i \in DOMAIN wardrobe :
             /\ wardrobe'[i].id = wardrobe[i].id
             /\ wardrobe'[i].worn_count >= wardrobe[i].worn_count
        /\ \A i \in DOMAIN wardrobe' \ DOMAIN wardrobe : wardrobe'[i].worn_count = 0]_vars

\* the wardrobe is full and outfits were logged and rated after the items
\* were added
C15_Witness ==
  /\ StoreFilled
  /\ reply.tool = "rate_outfit"
  /\ ~reply.isError
  /\ \A i \in DOMAIN wardrobe : rowToWardrobeItem(wardrobe[i]).wornCount = 0

\* C19: a call of a tool that the ListTools response names never ends in
\* the 'Unknown tool' error.
C19_ListedToolsDispatched ==
  (reply.tool \in {listedTools[i] : i \in DOMAIN listedTools} /\ reply.isError)
    => reply.content # "Unknown tool"

(***************************************************************************)
(* Properties of searchOutfits, read off the settled call.                 *)
(***************************************************************************)
\* the stored outfit satisfies every filter the criteria supply
Satisfies(row, criteria) ==
  /\ has(criteria, "tags")
       => \A t \in {criteria.tags[i] : i \in DOMAIN criteria.tags} :
            \E tag \in row.occasion_tags \cup row.style_tags : includes(tag, t)
  /\ has(criteria, "min_confidence")
       => has(row, "confidence_rating") /\ row.confidence_rating >= criteria.min_confidence
  /\ has(criteria, "min_comfort")
       => has(row, "comfort_rating") /\ row.comfort_rating >= criteria.min_comfort
  /\ has(criteria, "min_success")
       => has(row, "success_rating") /\ row.success_rating >= criteria.min_success
  /\ has(criteria, "occasion")
       => \E tag \in row.occasion_tags : includes(tag, criteria.occasion)
  /\ has(criteria, "season") => criteria.season \in row.season
  /\ has(criteria, "date_range")
       => /\ criteria.date_range.start <= row.timestamp
          /\ row.timestamp <= criteria.date_range.end

\* the ids of the outfits that satisfy the criteria, latest first, at most
\* limit of them
ExpectedIds(table, criteria) ==
  LET ids   == {i \in DOMAIN table : Satisfies(table[i], criteria)}
      desc  == [k \in 1..Cardinality(ids) |->
                  CHOOSE i \in ids : Cardinality({j \in ids : j > i}) = k - 1]
  IN  IF has(criteria, "limit") /\ criteria.limit < Len(desc)
      THEN SubSeq(desc, 1, criteria.limit)
      ELSE desc

\* C18: searchOutfits resolves with exactly the stored outfits that satisfy
\* every supplied filter (tag, minimum confidence, comfort and success,
\* occasion, season, date range), latest first, truncated to limit.
C18_SearchReturnsMatches ==
  searchResults # Pending
    => [i \in DOMAIN searchResults.value |-> searchResults.value[i].id]
         = ExpectedIds(searchTable, searchCriteria)

(***************************************************************************)
(* Properties of the web interface.                                        *)
(***************************************************************************)
Answered == exchange # NoExchange

\* C20: a request without the cookie stylisti-auth=verified is never served
\* the main app page: GET / answers it with a redirect to /login, and no
\* path answers it with app.html; and a response sets the cookie only when
\* the request submitted the configured password.
C20_AppPageBehindLogin ==
  Answered =>
    /\ ~exchange.request.cookie
         => /\ exchange.response.body # "app.html"
            /\ (exchange.request.method = "GET" /\ exchange.request.path = "/")
                 => exchange.response = redirect("/login")
    /\ exchange.response.setCookie
         => /\ has(exchange.request.body, "password")
            /\ exchange.request.body.password = correctPassword(env)

\* C21: the response to get_outfit_recommendations called with a limit holds
\* at most limit recommendations.
C21_AtMostLimit ==
  \A args \in ContextInputs :
    (/\ has(args, "limit")
     /\ reply.tool = "get_outfit_recommendations"
     /\ reply \in recommendationResults[args])
      => Len(reply.content) <= args.limit

\* the recommendation id is the id of the stored outfit: the ids that
\* generateSingleRecommendation makes start with rec, a uuidv4 does not
NamesOutfit(recId, outfitId) == Head(recId) # "rec" /\ recId = <<outfitId>>

\* C22: once an outfit was logged with an occasion and rated, the
\* recommendations of a following get_outfit_recommendations call for that
\* occasion include one whose id is that outfit's id.
C22_RecommendsFromHistory ==
  \A i \in DOMAIN outfits, args \in ContextInputs :
    (/\ has(outfits[i], "confidence_rating")
     /\ has(args, "occasion")
     /\ args.occasion \in outfits[i].occasion_tags
     /\ reply.tool = "get_outfit_recommendations")
      => \A now \in ClockReadings, scoreDraws \in DrawVectors, otherDraw \in RandomDraws :
           LET recs == generateRecommendations(args, now, scoreDraws, otherDraw)
           IN  reply.content = formattedRecs(recs)
                 => \E k \in DOMAIN recs : NamesOutfit(recs[k].id, outfits[i].id)

(***************************************************************************)
(* MCPClient of the web interface.  The child process answers on stdout;   *)
(* a chunk of its output is a sequence of whole lines.  A line is JSON or  *)
(* not, and a JSON line has an id or none.  pendingRequests maps an id to  *)
(* the resolve of the promise made for that id, so it is kept as the set   *)
(* of its keys; promises records every call of a resolve or a reject.      *)
(***************************************************************************)
MaxMessages == 3

MaxLines == 2

Resolved(value) == [kind |-> "resolved", value |-> value]

RejectedWith(message) == [kind |-> "rejected", value |-> message]

\* resolve or reject of the promise that sendMessage made for the id
settle(made, id, outcome) ==
  [k \in DOMAIN made |->
     IF made[k].id = id THEN [made[k] EXCEPT !.outcomes = Append(@, outcome)]
     ELSE made[k]]

\* the lines the child process may write
StdoutLines ==
  {[json |-> FALSE], [json |-> TRUE]}
  \cup {[json |-> TRUE, id |-> n] : n \in 0..(MaxMessages + 1)}

StdoutData == UNION {[1..n -> StdoutLines] : n \in 1..MaxLines}

\* the body of lines.forEach in the stdout handler, on one line
onLine(state, line) ==
  IF /\ line.json
     /\ has(line, "id")
     /\ line.id # 0
     /\ line.id \in state.pendingRequests
  THEN [pendingRequests |-> state.pendingRequests \ {line.id},
        promises |-> settle(state.promises, line.id, Resolved("response"))]
  ELSE state

RECURSIVE forEachLine(_, _)
forEachLine(state, lines) ==
  IF lines = <<>> THEN state
  ELSE forEachLine(onLine(state, Head(lines)), Tail(lines))

\* a variant of sendMessage that schedules no timeout
SendMessageNoTimeout(object, caller) ==
  LET id == object.messageId
      wrote == object.server # "null"
  IN  /\ mcpClient' = [object EXCEPT !.messageId = id + 1,
                                     !.pendingRequests = @ \cup {id}]
      /\ timeouts' = timeouts
      /\ promises' = Append(promises,
                            [caller |-> caller, id |-> id,
                             outcomes |-> IF wrote THEN <<>>
                                          ELSE <<RejectedWith("TypeError")>>])

\* sendMessage: the executor of the promise takes the next id, stores resolve
\* under it and writes to this.server.stdin, which throws when this.server is
\* null; the throw rejects the promise before setTimeout is reached
SendMessage(object, caller) ==
  LET id == object.messageId
      wrote == object.server # "null"
  IN  /\ mcpClient' = [object EXCEPT !.messageId = id + 1,
                                     !.pendingRequests = @ \cup {id}]
      /\ timeouts' = IF wrote THEN timeouts \cup {id} ELSE timeouts
      /\ promises' = Append(promises,
                            [caller |-> caller, id |-> id,
                             outcomes |-> IF wrote THEN <<>>
                                          ELSE <<RejectedWith("TypeError")>>])

\* start(), awaited by startServers before the routes are served
Start(spawnThrows) ==
  /\ ~started
  /\ started' = TRUE
  /\ IF vercel \/ spawnThrows
     THEN UNCHANGED <<mcpClient, timeouts, promises>>
     ELSE SendMessage([mcpClient EXCEPT !.server = "running"], "start")
  /\ UNCHANGED <<vercel, baseVars, chatVars, workerVars, uploadVars>>

\* logOutfit and getRecommendations: a fixed result in the Vercel
\* environment, else sendMessage('tools/call')
CallTool(caller) ==
  /\ started
  /\ Len(promises) < MaxMessages
  /\ IF vercel
     THEN /\ promises' = Append(promises, [caller |-> caller, id |-> 0,
                                           outcomes |-> <<Resolved("Vercel mode")>>])
          /\ UNCHANGED <<mcpClient, timeouts>>
     ELSE SendMessage(mcpClient, caller)
  /\ UNCHANGED <<vercel, started, baseVars, chatVars, workerVars, uploadVars>>

ClientLogOutfit == CallTool("logOutfit")

ClientGetRecommendations == CallTool("getRecommendations")

\* the handler of this.server.stdout 'data'
StdoutHandler(data) ==
  /\ mcpClient.server = "running"
  /\ LET done == forEachLine([pendingRequests |-> mcpClient.pendingRequests,
                              promises |-> promises], data)
     IN  /\ mcpClient' = [mcpClient EXCEPT !.pendingRequests = done.pendingRequests]
         /\ promises' = done.promises
  /\ UNCHANGED <<vercel, started, timeouts, baseVars, chatVars, workerVars, uploadVars>>

\* a variant of the timeout callback that rejects without looking at
\* pendingRequests
TimeoutUnguarded(id) ==
  /\ id \in timeouts
  /\ timeouts' = timeouts \ {id}
  /\ mcpClient' = [mcpClient EXCEPT !.pendingRequests = @ \ {id}]
  /\ promises' = settle(promises, id, RejectedWith("Request timeout"))
  /\ UNCHANGED <<vercel, started, baseVars, chatVars, workerVars, uploadVars>>

\* the callback of setTimeout in sendMessage
Timeout(id) ==
  /\ id \in timeouts
  /\ timeouts' = timeouts \ {id}
  /\ IF id \in mcpClient.pendingRequests
     THEN /\ mcpClient' = [mcpClient EXCEPT !.pendingRequests = @ \ {id}]
          /\ promises' = settle(promises, id, RejectedWith("Request timeout"))
     ELSE UNCHANGED <<mcpClient, promises>>
  /\ UNCHANGED <<vercel, started, baseVars, chatVars, workerVars, uploadVars>>

InitClient ==
  /\ mcpClient = NewMCPClient
  /\ vercel \in BOOLEAN
  /\ started = FALSE
  /\ timeouts = {}
  /\ promises = <<>>
  /\ EngineIdle
  /\ RecIdle
  /\ ServerIdle
  /\ InsightIdle
  /\ ToolsIdle
  /\ SearchIdle
  /\ WebIdle
  /\ ChatIdle
  /\ WorkerIdle
  /\ UploadIdle

NextClient ==
  \/ \E spawnThrows \in BOOLEAN : Start(spawnThrows)
  \/ ClientLogOutfit
  \/ ClientGetRecommendations
  \/ \E data \in StdoutData : StdoutHandler(data)
  \/ \E id \in 1..(MaxMessages + 1) : Timeout(id)

SpecClient == InitClient /\ [][NextClient]_vars

\* the event loop of Node runs the callback of every timer that is due
SpecClientLive ==
  SpecClient /\ \A id \in 1..(MaxMessages + 1) : WF_vars(Timeout(id))

\* C23: the ids of the MCPClient requests increase strictly, no promise has
\* its resolve or reject called twice, and a step settles only promises whose
\* id is in pendingRequests, so a response with an id that is not pending
\* resolves nothing.
C23_SettledAtMostOnce ==
  /\ [](\A j, k \in DOMAIN promises :
          (j < k /\ promises[j].id # 0 /\ promises[k].id # 0)
            => promises[j].id < promises[k].id)
  /\ [](\A k \in DOMAIN promises : Len(promises[k].outcomes) <= 1)
  /\ [][\A k \in DOMAIN promises :
          promises'[k].outcomes # promises[k].outcomes
            => promises[k].id \in mcpClient.pendingRequests]_vars

\* one request resolved by its response and another rejected by its timeout,
\* whose timer of the first has fired as well
C23_Witness ==
  /\ \E k \in DOMAIN promises :
       /\ promises[k].outcomes = <<Resolved("response")>>
       /\ promises[k].id \notin timeouts
  /\ \E k \in DOMAIN promises : promises[k].outcomes = <<RejectedWith("Request timeout")>>

C30_PendingOnlyUnsettled ==
  \A k \in DOMAIN promises :
    promises[k].outcomes # <<>> => promises[k].id \notin mcpClient.pendingRequests

(***************************************************************************)
(* POST /api/chat.  The handler runs in three parts, split at its awaits:  *)
(* up to getAvailablePhotos(), from there to the call of the model, and    *)
(* from the completion to the response.  Requests of any sessions may      *)
(* interleave between the parts.  A session id is a sequence of pieces of  *)
(* text and + joins sequences, so that the id <<"a", "_analyzed_photos">>  *)
(* is the string a_analyzed_photos.  File names and messages are texts; a  *)
(* completion is an error or the text of the model, of which the model     *)
(* keeps whether it has a PHOTO_REFS section and the names listed there.   *)
(***************************************************************************)
HistoryLimit == 20

MaxAnalyzed == 6

MaxRequests == 2

\* Map.prototype.set
mapSet(map, key, value) == [k \in DOMAIN map \cup {key} |-> IF k = key THEN value ELSE map[k]]

analyzedPhotosKey(sessionId) == sessionId \o <<"_analyzed_photos">>

\* String.prototype.trim, for blanks
RECURSIVE trim(_)
trim(str) ==
  IF str = <<>> THEN str
  ELSE IF Head(str) = " " THEN trim(Tail(str))
  ELSE IF str[Len(str)] = " " THEN trim(SubSeq(str, 1, Len(str) - 1))
  ELSE str

endsWith(str, suffix) ==
  Len(str) >= Len(suffix) /\ SubSeq(str, Len(str) - Len(suffix) + 1, Len(str)) = suffix

\* /\.(jpg|jpeg|png|webp)$/i.test(filename)
aiSupported(filename) ==
  \E extension \in {<<".","j","p","g">>, <<".","j","p","e","g">>, <<".","p","n","g">>, <<".","w","e","b","p">>} :
    endsWith(toLowerCase(filename), extension)

\* Array.prototype.filter
filterArray(array, keep(_)) ==
  LET kept == {i \in DOMAIN array : keep(array[i])}
  IN  [k \in 1..Cardinality(kept) |->
         array[CHOOSE i \in kept : Cardinality({j \in kept : j <= i}) = k]]

imageKeywords ==
  {<<"r","e","c","o","m","m","e","n","d">>, <<"w","e","a","r">>, <<"s","t","y","l","e">>, <<"o","u","t","f","i","t">>, <<"w","h","a","t"," ","s","h","o","u","l","d"," ","i">>, <<"m","i","x">>, <<"m","a","t","c","h">>}

\* the message names one of the keywords
mentionsOutfits(message) ==
  \E keyword \in imageKeywords : includes(toLowerCase(message), keyword)

needsImageAnalysis(mentions, availablePhotos, history) ==
  \/ mentions
  \/ (Len(availablePhotos) > 0 /\ Len(history) = 0)

\* photosCopy.slice(0, maxPhotos) of the shuffled copy
photosToAnalyze(aiSupportedPhotos, order) ==
  LET photosCopy == [i \in DOMAIN aiSupportedPhotos |-> aiSupportedPhotos[order[i]]]
      maxPhotos == IF MaxAnalyzed < Len(aiSupportedPhotos) THEN MaxAnalyzed
                   ELSE Len(aiSupportedPhotos)
  IN  SubSeq(photosCopy, 1, maxPhotos)

\* the orders the Fisher-Yates shuffle can produce
Shuffles(n) == {order \in [1..n -> 1..n] : \A i, j \in 1..n : order[i] = order[j] => i = j}

\* a variant of the cap that removes the newest messages
capHistoryKeepingOldest(history) ==
  IF Len(history) > HistoryLimit THEN SubSeq(history, 1, HistoryLimit) ELSE history

\* if (history.length > 20) history.splice(0, history.length - 20)
capHistory(history) ==
  IF Len(history) > HistoryLimit
  THEN SubSeq(history, Len(history) - HistoryLimit + 1, Len(history))
  ELSE history

\* the names of the PHOTO_REFS section: split(','), trim, toLowerCase, and
\* the empty ones dropped
referencedFilenames(listed) ==
  LET nonEmpty(name) == Len(name) > 0
  IN  filterArray([i \in DOMAIN listed |-> toLowerCase(trim(listed[i]))], nonEmpty)

referenced(photo, names) ==
  \E i \in DOMAIN names :
    \/ toLowerCase(photo.filename) = names[i]
    \/ includes(toLowerCase(photo.filename), toLowerCase(names[i]))

\* aiResponse without its PHOTO_REFS section
cleanResponse(aiResponse) == [text |-> aiResponse.text]

\* an entry of referenceImages; JSON leaves out the undefined properties
referenceImage(photo) ==
  IF has(photo, "filename")
  THEN [url |-> photo.url, filename |-> photo.filename, isReference |-> TRUE]
  ELSE [isReference |-> TRUE]

userMessageOf(request, message, attached) ==
  [role |-> "user", request |-> request, text |-> message,
   images |-> [i \in DOMAIN attached |-> attached[i].url]]

assistantMessage(request, content) ==
  [role |-> "assistant", request |-> request, content |-> content]

Photo(filename) == [filename |-> filename, url |-> <<"/">> \o filename]

PhotoLists ==
  {<<>>, <<Photo(<<"c",".","h","e","i","c">>)>>, <<Photo(<<"a",".","j","p","g">>), Photo(<<"B",".","P","N","G">>), Photo(<<"c",".","h","e","i","c">>)>>}

SessionIds == {<<"a">>, <<"a", "_analyzed_photos">>}

ChatMessages == {<<"H","i">>, <<"W","h","a","t"," ","s","h","o","u","l","d"," ","I"," ","W","e","a","r">>}

\* what the model answers: a text without PHOTO_REFS, or one that lists names
AIResponses ==
  {[text |-> "looks"]}
  \cup {[text |-> "looks", refs |-> listed] :
          listed \in {<<<<" ","A",".","J","P","G">>>>, <<<<".","p","n">>, <<" ">>>>}}

\* ten earlier exchanges of session a
EarlierHistory ==
  [i \in 1..HistoryLimit |->
     IF i % 2 = 1 THEN userMessageOf(0 - ((HistoryLimit - i) \div 2) - 1, <<"H","i">>, <<>>)
     ELSE assistantMessage(0 - ((HistoryLimit - i) \div 2) - 1, [text |-> "looks"])]

\* mentionsOutfits, the photos of a list that pass aiSupported, and the
\* photos that the names of a response select, computed once for the inputs
messageMentionsOutfits == [message \in ChatMessages |-> mentionsOutfits(message)]

aiSupportedPhotosOf ==
  [photos \in PhotoLists |->
     LET supportedFile(photo) == aiSupported(photo.filename)
     IN  filterArray(photos, supportedFile)]

referencedPhotosOf ==
  [aiResponse \in {given \in AIResponses : has(given, "refs")} |->
     LET names == referencedFilenames(aiResponse.refs)
     IN  [names |-> names,
          photos |-> {photo \in UNION {{photos[i] : i \in DOMAIN photos} : photos \in PhotoLists} :
                        referenced(photo, names)}]]

\* the first part: the body, the API key and the history of the session
ChatReceive(sessionId, message) ==
  /\ Len(chats) < MaxRequests
  /\ IF ~openaiKey
     THEN /\ chats' = Append(chats, [pc |-> "done", sessionId |-> sessionId,
                                     attached |-> <<>>,
                                     response |-> [response |-> "need a key", images |-> <<>>]])
          /\ UNCHANGED <<conversationHistory, arrays>>
     ELSE /\ IF has(conversationHistory, sessionId)
             THEN UNCHANGED <<conversationHistory, arrays>>
             ELSE /\ arrays' = Append(arrays, <<>>)
                  /\ conversationHistory' = mapSet(conversationHistory, sessionId, Len(arrays) + 1)
          /\ chats' = Append(chats, [pc |-> "photos", sessionId |-> sessionId,
                                     message |-> message,
                                     history |-> conversationHistory'[sessionId]])
  /\ UNCHANGED <<openaiKey, storedPhotos, baseVars, clientVars, workerVars, uploadVars>>

\* the second part: the photos are listed, the messages for the model are
\* built and the photos picked for them are stored under the session's key
ChatPrepare(n, order) ==
  /\ n \in DOMAIN chats
  /\ chats[n].pc = "photos"
  /\ LET chat == chats[n]
         history == arrays[chat.history]
         availablePhotos == storedPhotos
         aiSupportedPhotos == aiSupportedPhotosOf[availablePhotos]
         analyze == /\ needsImageAnalysis(messageMentionsOutfits[chat.message],
                                          availablePhotos, history)
                    /\ Len(availablePhotos) > 0
                    /\ Len(aiSupportedPhotos) > 0
         attached == IF analyze THEN photosToAnalyze(aiSupportedPhotos, order) ELSE <<>>
     IN  /\ order \in Shuffles(Len(aiSupportedPhotos))
         /\ IF analyze
            THEN /\ arrays' = Append(arrays, attached)
                 /\ conversationHistory' =
                      mapSet(conversationHistory, analyzedPhotosKey(chat.sessionId),
                             Len(arrays) + 1)
            ELSE UNCHANGED <<conversationHistory, arrays>>
         /\ chats' = [chats EXCEPT ![n] =
                        [pc |-> "openai", sessionId |-> chat.sessionId,
                         history |-> chat.history,
                         userMessage |-> userMessageOf(n, chat.message, attached),
                         attached |-> attached]]
  /\ UNCHANGED <<openaiKey, storedPhotos, baseVars, clientVars, workerVars, uploadVars>>

\* the call of the model fails: the catch answers, the history is not touched
ChatFail(n) ==
  /\ n \in DOMAIN chats
  /\ chats[n].pc = "openai"
  /\ chats' = [chats EXCEPT ![n] =
                 [pc |-> "done", sessionId |-> chats[n].sessionId,
                  attached |-> chats[n].attached,
                  response |-> [response |-> "error", images |-> <<>>]]]
  /\ UNCHANGED <<conversationHistory, arrays, openaiKey, storedPhotos, baseVars, clientVars, workerVars, uploadVars>>

\* the third part: the exchange is pushed to the history, the history is cut
\* to its last entries, and the photos stored under the session's key are
\* filtered by the names of PHOTO_REFS.  photo.filename.toLowerCase() throws
\* on an entry without filename, and the catch answers then.
ChatComplete(n, aiResponse) ==
  /\ n \in DOMAIN chats
  /\ chats[n].pc = "openai"
  /\ LET chat == chats[n]
         key == analyzedPhotosKey(chat.sessionId)
         pushed == capHistory(arrays[chat.history]
                              \o <<chat.userMessage, assistantMessage(n, aiResponse)>>)
         heap == [arrays EXCEPT ![chat.history] = pushed]
         analyzedPhotos == IF has(conversationHistory, key)
                           THEN heap[conversationHistory[key]] ELSE <<>>
         names == IF has(aiResponse, "refs") THEN referencedPhotosOf[aiResponse].names
                  ELSE <<>>
         throws == /\ has(aiResponse, "refs")
                   /\ names # <<>>
                   /\ \E i \in DOMAIN analyzedPhotos : ~has(analyzedPhotos[i], "filename")
         isReferenced(photo) == photo \in referencedPhotosOf[aiResponse].photos
         filteredPhotos == IF has(aiResponse, "refs")
                           THEN filterArray(analyzedPhotos, isReferenced)
                           ELSE analyzedPhotos
         cleaned == [pushed EXCEPT ![Len(pushed)] =
                       assistantMessage(n, cleanResponse(aiResponse))]
     IN  IF throws
         THEN /\ arrays' = heap
              /\ chats' = [chats EXCEPT ![n] =
                             [pc |-> "done", sessionId |-> chat.sessionId,
                              attached |-> chat.attached,
                              response |-> [response |-> "error", images |-> <<>>]]]
         ELSE /\ arrays' = IF has(aiResponse, "refs")
                           THEN [arrays EXCEPT ![chat.history] = cleaned]
                           ELSE heap
              /\ chats' = [chats EXCEPT ![n] =
                             [pc |-> "done", sessionId |-> chat.sessionId,
                              attached |-> chat.attached,
                              response |->
                                [response |-> cleanResponse(aiResponse).text,
                                 images |-> [i \in DOMAIN filteredPhotos |->
                                               referenceImage(filteredPhotos[i])]]]]
  /\ UNCHANGED <<conversationHistory, openaiKey, storedPhotos, baseVars, clientVars, workerVars, uploadVars>>

InitChat ==
  /\ \/ conversationHistory = EmptyObject /\ arrays = <<>>
     \/ conversationHistory = mapSet(EmptyObject, <<"a">>, 1) /\ arrays = <<EarlierHistory>>
  /\ chats = <<>>
  /\ openaiKey \in BOOLEAN
  /\ storedPhotos \in PhotoLists
  /\ EngineIdle
  /\ RecIdle
  /\ ServerIdle
  /\ InsightIdle
  /\ ToolsIdle
  /\ SearchIdle
  /\ WebIdle
  /\ ClientIdle
  /\ WorkerIdle
  /\ UploadIdle

NextChat ==
  \/ \E sessionId \in SessionIds, message \in ChatMessages : ChatReceive(sessionId, message)
  \/ \E n \in 1..MaxRequests, order \in Shuffles(2) \cup Shuffles(0) : ChatPrepare(n, order)
  \/ \E n \in 1..MaxRequests : ChatFail(n)
  \/ \E n \in 1..MaxRequests, aiResponse \in AIResponses : ChatComplete(n, aiResponse)

SpecChat == InitChat /\ [][NextChat]_vars

C26_ImagesWereAttached ==
  \A n \in DOMAIN chats :
    chats[n].pc = "done"
      => \A i \in DOMAIN chats[n].response.images :
           LET image == chats[n].response.images[i]
           IN  /\ has(image, "filename")
               /\ \E k \in DOMAIN chats[n].attached :
                    chats[n].attached[k].filename = image.filename

\* what the Map holds for a session: its history and its analyzed photos
sessionHistory(sessionId) ==
  IF has(conversationHistory, sessionId)
  THEN <<arrays[conversationHistory[sessionId]]>> ELSE <<>>

sessionAnalyzedPhotos(sessionId) ==
  IF has(conversationHistory, analyzedPhotosKey(sessionId))
  THEN <<arrays[conversationHistory[analyzedPhotosKey(sessionId)]]>> ELSE <<>>

\* C27: a step of a request of one session leaves the history and the
\* analyzed photos of every other session as they are.
C27_SessionsIsolated ==
  [][\A n \in DOMAIN chats', other \in SessionIds :
       (/\ n \notin DOMAIN chats \/ chats'[n] # chats[n]
        /\ other # chats'[n].sessionId)
         => /\ sessionHistory(other)' = sessionHistory(other)
            /\ sessionAnalyzedPhotos(other)' = sessionAnalyzedPhotos(other)]_vars

(***************************************************************************)
(* The service worker sw.js.  Cache Storage is a map from the name of a    *)
(* cache to the urls it holds.  The browser runs install, then activate,   *)
(* and hands the fetches of the pages to the worker once it is activated.  *)
(* A fetch of the network succeeds with status 200, succeeds with another  *)
(* status, or fails.  cache.put after a fetch is not awaited: it completes *)
(* in a later step.  The listeners are modelled as written in lines 11-81  *)
(* and 94-114; the catch that follows in lines 82-91 is closed one time    *)
(* too many, so that the file as it stands does not parse.                 *)
(***************************************************************************)
CACHE_NAME == "stylisti-v13"

APP_HTML == <<"/","a","p","p",".","h","t","m","l">>

urlsToCache == <<<<"/","a","p","p",".","h","t","m","l">>, <<"/">>, <<"/","m","a","n","i","f","e","s","t",".","j","s","o","n">>, <<"/","i","c","o","n","-","1","9","2",".","p","n","g">>, <<"/","i","c","o","n","-","5","1","2",".","p","n","g">>>>

\* the urls the pages ask for
FetchedUrls == {<<"/","a","p","p",".","h","t","m","l">>, <<"/","m","a","n","i","f","e","s","t",".","j","s","o","n">>, <<"/","u","p","l","o","a","d","s","/","1",".","j","p","g">>}

NetworkOutcomes == {"200", "404", "failed"}

\* the cache storage before this version of the worker: empty, or with the
\* cache of the version before
EarlierCaches == {EmptyObject, mapSet(EmptyObject, "stylisti-v12", {<<"/","a","p","p",".","h","t","m","l">>, <<"/">>})}

\* caches.open(name), which creates the cache that is missing
cachesOpen(storage, name) ==
  IF has(storage, name) THEN storage ELSE mapSet(storage, name, {})

\* cache.put(request, response) on the cache CACHE_NAME
cachePut(storage, url) ==
  LET opened == cachesOpen(storage, CACHE_NAME)
  IN  mapSet(opened, CACHE_NAME, opened[CACHE_NAME] \cup {url})

\* caches.match(request): whether any cache holds the url
cachesMatch(storage, url) == \E name \in DOMAIN storage : url \in storage[name]

\* the install listener: addAll adds every url or, when a fetch fails, none,
\* and the catch lets the installation go on
Install(networkOk) ==
  /\ swPhase = "parsed"
  /\ swPhase' = "installed"
  /\ LET opened == cachesOpen(caches, CACHE_NAME)
     IN  caches' = IF networkOk
                   THEN mapSet(opened, CACHE_NAME,
                               opened[CACHE_NAME]
                                 \cup {urlsToCache[i] : i \in DOMAIN urlsToCache})
                   ELSE opened
  /\ UNCHANGED <<pendingPuts, fetched, baseVars, clientVars, chatVars, uploadVars>>

\* the activate listener: every cache but CACHE_NAME is deleted, then
\* /app.html is deleted from CACHE_NAME
Activate ==
  /\ swPhase = "installed"
  /\ swPhase' = "activated"
  /\ LET kept == cachesOpen([name \in DOMAIN caches \cap {CACHE_NAME} |-> caches[name]],
                            CACHE_NAME)
     IN  caches' = mapSet(kept, CACHE_NAME, kept[CACHE_NAME] \ {APP_HTML})
  /\ UNCHANGED <<pendingPuts, fetched, baseVars, clientVars, chatVars, uploadVars>>

\* the fetch listener for a url that includes /app.html: the network first,
\* its response put to the cache whatever its status, and caches.match when
\* the fetch fails
FetchAppHtml(url, outcome) ==
  /\ swPhase = "activated"
  /\ includes(url, APP_HTML)
  /\ IF outcome # "failed"
     THEN /\ fetched' = [url |-> url, network |-> outcome, from |-> "network"]
          /\ pendingPuts' = pendingPuts \cup {url}
     ELSE /\ fetched' = [url |-> url, network |-> outcome,
                         from |-> IF cachesMatch(caches, url) THEN "cache" ELSE "nothing"]
          /\ UNCHANGED pendingPuts
  /\ UNCHANGED <<swPhase, caches, baseVars, clientVars, chatVars, uploadVars>>

\* the fetch listener for the other urls: the cache first, then the network,
\* whose response is put to the cache when its status is 200
FetchOther(url, outcome) ==
  /\ swPhase = "activated"
  /\ ~includes(url, APP_HTML)
  /\ IF cachesMatch(caches, url)
     THEN /\ fetched' = [url |-> url, network |-> "not asked", from |-> "cache"]
          /\ UNCHANGED pendingPuts
     ELSE IF outcome # "failed"
     THEN /\ fetched' = [url |-> url, network |-> outcome, from |-> "network"]
          /\ pendingPuts' = IF outcome = "200" THEN pendingPuts \cup {url} ELSE pendingPuts
     ELSE /\ fetched' = [url |-> url, network |-> outcome, from |-> "nothing"]
          /\ UNCHANGED pendingPuts
  /\ UNCHANGED <<swPhase, caches, baseVars, clientVars, chatVars, uploadVars>>

\* caches.open(CACHE_NAME).then(cache => cache.put(...)) completes
CachePutDone(url) ==
  /\ url \in pendingPuts
  /\ pendingPuts' = pendingPuts \ {url}
  /\ caches' = cachePut(caches, url)
  /\ UNCHANGED <<swPhase, fetched, baseVars, clientVars, chatVars, uploadVars>>

InitWorker ==
  /\ swPhase = "parsed"
  /\ caches \in EarlierCaches
  /\ pendingPuts = {}
  /\ fetched = NoFetch
  /\ EngineIdle
  /\ RecIdle
  /\ ServerIdle
  /\ InsightIdle
  /\ ToolsIdle
  /\ SearchIdle
  /\ WebIdle
  /\ ClientIdle
  /\ ChatIdle
  /\ UploadIdle

NextWorker ==
  \/ \E networkOk \in BOOLEAN : Install(networkOk)
  \/ Activate
  \/ \E url \in FetchedUrls, outcome \in NetworkOutcomes : FetchAppHtml(url, outcome)
  \/ \E url \in FetchedUrls, outcome \in NetworkOutcomes : FetchOther(url, outcome)
  \/ \E url \in FetchedUrls : CachePutDone(url)

SpecWorker == InitWorker /\ [][NextWorker]_vars

MaxUploads == 2

MaxFiles == 2

FileNames == {"a.jpg"}

\* req.files: up to MaxFiles files
FileLists == UNION {[1..k -> FileNames] : k \in 0..MaxFiles}

\* the fields of req.body parse as JSON or do not
UploadBodies == {[mood |-> "happy", parses |-> TRUE], [mood |-> "happy", parses |-> FALSE]}

downloadURL(request, index) == <<"outfits", request, index>>

uploadedFile(request, index, file) ==
  [filename |-> <<request, index>>, originalname |-> file, url |-> downloadURL(request, index)]

\* outfitData of the handler
outfitDataOf(body, uploadedFiles) ==
  [photo_paths |-> [i \in DOMAIN uploadedFiles |-> uploadedFiles[i].url],
   photo_filenames |-> [i \in DOMAIN uploadedFiles |-> uploadedFiles[i].filename],
   mood |-> body.mood]

StatusResponse(status) == [status |-> status]

\* the handler up to its first await: 400 without files
UploadOutfit(photos, body) ==
  /\ Len(uploads) < MaxUploads
  /\ uploads' = Append(uploads,
                       IF Len(photos) = 0
                       THEN [pc |-> "done", files |-> photos, failed |-> FALSE,
                             response |-> StatusResponse(400)]
                       ELSE [pc |-> "uploading", files |-> photos, body |-> body,
                             uploadedFiles |-> <<>>, failed |-> FALSE])
  /\ UNCHANGED <<firebaseStorage, storedPhotoUrls, loggedOutfits, vercel>>
  /\ UNCHANGED <<mcpClient, started, timeouts, promises, baseVars, chatVars, workerVars>>

\* a variant of the loop that goes on to the next file after a failed upload
UploadFileSkipping(n, stores, urlGiven) ==
  /\ n \in DOMAIN uploads
  /\ uploads[n].pc = "uploading"
  /\ LET upload == uploads[n]
         index == Len(upload.uploadedFiles) + 1 + (IF upload.failed THEN 1 ELSE 0)
         position == IF index > Len(upload.files) THEN Len(upload.files) ELSE index
         stored == firebaseStorage /\ stores
         pushed == IF stored /\ urlGiven
                   THEN Append(upload.uploadedFiles,
                               uploadedFile(n, position, upload.files[position]))
                   ELSE upload.uploadedFiles
     IN  /\ storedPhotoUrls' = IF stored THEN storedPhotoUrls \cup {downloadURL(n, position)}
                               ELSE storedPhotoUrls
         /\ uploads' = [uploads EXCEPT ![n] =
                          [upload EXCEPT !.uploadedFiles = pushed,
                                         !.failed = @ \/ ~(stored /\ urlGiven),
                                         !.pc = IF position = Len(upload.files)
                                                THEN "logging" ELSE "uploading"]]
  /\ UNCHANGED <<firebaseStorage, loggedOutfits, vercel>>
  /\ UNCHANGED <<mcpClient, started, timeouts, promises, baseVars, chatVars, workerVars>>

\* one turn of the loop over the files: uploadBytes, getDownloadURL and the
\* push to uploadedFiles; a failure is thrown on to the catch, which answers
\* 500
UploadFile(n, stores, urlGiven) ==
  /\ n \in DOMAIN uploads
  /\ uploads[n].pc = "uploading"
  /\ LET upload == uploads[n]
         index == Len(upload.uploadedFiles) + 1
         stored == firebaseStorage /\ stores
         pushed == Append(upload.uploadedFiles, uploadedFile(n, index, upload.files[index]))
     IN  /\ storedPhotoUrls' = IF stored THEN storedPhotoUrls \cup {downloadURL(n, index)}
                               ELSE storedPhotoUrls
         /\ uploads' = [uploads EXCEPT ![n] =
                          IF stored /\ urlGiven
                          THEN [upload EXCEPT !.uploadedFiles = pushed,
                                              !.pc = IF index = Len(upload.files)
                                                     THEN "logging" ELSE "uploading"]
                          ELSE [pc |-> "done", files |-> upload.files, failed |-> TRUE,
                                response |-> StatusResponse(500)]]
  /\ UNCHANGED <<firebaseStorage, loggedOutfits, vercel>>
  /\ UNCHANGED <<mcpClient, started, timeouts, promises, baseVars, chatVars, workerVars>>

\* outfitData is built, where JSON.parse throws on a field that does not
\* parse, and logOutfit is awaited: it answers at once in the Vercel
\* environment, else the outfit is sent to the MCP server, whose answer
\* arrives or not
LogUploadedOutfit(n, answered) ==
  /\ n \in DOMAIN uploads
  /\ uploads[n].pc = "logging"
  /\ LET upload == uploads[n]
         sent == upload.body.parses /\ ~vercel
         succeeded == upload.body.parses /\ (vercel \/ answered)
     IN  /\ loggedOutfits' =
              IF sent
              THEN loggedOutfits
                     \cup {[request |-> n, outfitData |-> outfitDataOf(upload.body, upload.uploadedFiles)]}
              ELSE loggedOutfits
         /\ uploads' = [uploads EXCEPT ![n] =
                          [pc |-> "done", files |-> upload.files, failed |-> upload.failed,
                           response |-> StatusResponse(IF succeeded THEN 200 ELSE 500)]]
  /\ UNCHANGED <<firebaseStorage, storedPhotoUrls, vercel>>
  /\ UNCHANGED <<mcpClient, started, timeouts, promises, baseVars, chatVars, workerVars>>

InitUpload ==
  /\ firebaseStorage \in BOOLEAN
  /\ vercel \in BOOLEAN
  /\ storedPhotoUrls = {}
  /\ loggedOutfits = {}
  /\ uploads = <<>>
  /\ mcpClient = NewMCPClient
  /\ started = FALSE
  /\ timeouts = {}
  /\ promises = <<>>
  /\ EngineIdle
  /\ RecIdle
  /\ ServerIdle
  /\ InsightIdle
  /\ ToolsIdle
  /\ SearchIdle
  /\ WebIdle
  /\ ChatIdle
  /\ WorkerIdle

NextUpload ==
  \/ \E photos \in FileLists, body \in UploadBodies : UploadOutfit(photos, body)
  \/ \E n \in 1..MaxUploads, stores \in BOOLEAN, urlGiven \in BOOLEAN :
       UploadFile(n, stores, urlGiven)
  \/ \E n \in 1..MaxUploads, answered \in BOOLEAN : LogUploadedOutfit(n, answered)

SpecUpload == InitUpload /\ [][NextUpload]_vars

\* C29: an outfit sent to the MCP server belongs to a request all of whose
\* files were stored, and its photo_paths are the urls of those files in the
\* order of the upload; a request without files is answered 400, a request
\* with a failed upload 500, and neither has an outfit sent.
C29_LoggedAfterAllStored ==
  /\ \A outfit \in loggedOutfits :
       LET upload == uploads[outfit.request]
       IN  /\ ~upload.failed
           /\ Len(upload.files) > 0
           /\ Len(outfit.outfitData.photo_paths) = Len(upload.files)
           /\ \A i \in DOMAIN upload.files :
                /\ outfit.outfitData.photo_paths[i] = downloadURL(outfit.request, i)
                /\ downloadURL(outfit.request, i) \in storedPhotoUrls
  /\ \A n \in DOMAIN uploads :
       uploads[n].pc = "done"
         => /\ Len(uploads[n].files) = 0
                => (uploads[n].response.status = 400
                    /\ \A outfit \in loggedOutfits : outfit.request # n)
            /\ uploads[n].failed
                => (uploads[n].response.status = 500
                    /\ \A outfit \in loggedOutfits : outfit.request # n)

\* one request has its outfit sent with two photos, another was answered 500
\* after its first photo was stored and its second upload failed
C29_Witness ==
  /\ \E outfit \in loggedOutfits : Len(outfit.outfitData.photo_paths) = 2
  /\ \E n \in DOMAIN uploads :
       /\ uploads[n].pc = "done"
       /\ uploads[n].failed
       /\ Len(uploads[n].files) = 2
       /\ downloadURL(n, 1) \in storedPhotoUrls

=============================================================================
